---- MODULE Spec2Model ----
(***************************************************************************)
(* Model of express-middleware-chain:                                      *)
(*   src/src/stores/MemoryStore.ts   the in-memory Store engine            *)
(*   src/src/middleware/rateLimit.ts the fixed-window rate-limit policy    *)
(*   src/src/utils/duration.ts       parseDuration and the key generators  *)
(*   src/src/middleware/validation.ts the validation middleware            *)
(*   src/src/chain/ChainBuilder.ts   the chain builder and wrapAsync       *)
(*   src/src/middleware/errorBoundary.ts the error boundary                *)
(*                                                                         *)
(* Strings are sequences of tokens ("characters"): the key "" is <<>>.     *)
(* Time is the value of Date.now(), advanced by Tick.                      *)
(* An async method runs synchronously up to its first await; what follows  *)
(* the await is a continuation in the microtask queue mtq (FIFO).          *)
(***************************************************************************)
EXTENDS Integers, Sequences, FiniteSets, TLC

VARIABLES
    cache,            \* Map<string, CacheEntry>, in insertion order
    rateLimits,       \* Map<string, RateLimitEntry>
    tagIndex,         \* Map<string, Set<string>>
    cleanupInterval,  \* TRUE while the sweep timer is armed
    maxSize,          \* options.maxSize
    now,              \* Date.now()
    mtq,              \* continuations of suspended async calls, FIFO
    ret,              \* the event of the operation that completed last
    order,            \* history: keys of the cache by the time they entered it
    win,              \* history: per counter key, the calls of its current window
    cfg,              \* the RateLimitConfig the middlewares were created with
    reqs,             \* the requests the middlewares have been invoked for
    arrays,           \* the JavaScript arrays of handlers, by reference
    middlewares,      \* per ChainBuilder, the reference of this.middlewares
    built,            \* the arrays that build() returned to its callers
    calls,            \* history: per ChainBuilder, the methods called on it
    run               \* the request that Express passes through a built chain

vars == <<cache, rateLimits, tagIndex, cleanupInterval, maxSize, now, mtq, ret,
          order, win, cfg, reqs, arrays, middlewares, built, calls, run>>

storeVars == <<cache, rateLimits, tagIndex, cleanupInterval, maxSize>>
mwVars == <<cfg, reqs>>
chainVars == <<arrays, middlewares, built, calls, run>>

\* No ChainBuilder has been created and no request runs through a chain.
NoRun == [phase |-> "none"]

NoChains ==
    /\ arrays = <<>> /\ middlewares = <<>> /\ built = <<>> /\ calls = <<>>
    /\ run = NoRun

(***************************************************************************)
(* Bounds of the model.                                                    *)
(***************************************************************************)
MaxTime == 3
MaxCount == 3
MaxReqs == 3
MaxPending == 2
MaxLen == 4
MaxNumber == 3

(***************************************************************************)
(* Values.                                                                 *)
(***************************************************************************)
Undefined == -1

EmptyKey == <<>>
NoKey == <<"-">>
NoTag == "-"
NoData == "undefined"

Keys == {EmptyKey, <<"a">>, <<"b">>}
Tags == {"x", "y"}
Data == {"v1", "v2"}

StoreValue(d, tags) == [data |-> d, tags |-> tags]
NoValue == StoreValue(NoData, {})

\* JavaScript truthiness of an optional number (undefined and 0 are falsy).
Truthy(n) == n # Undefined /\ n # 0

\* JavaScript truthiness of a string ('' is falsy).
KeyTruthy(k) == k # <<>>

(***************************************************************************)
(* Map<string, CacheEntry>: a sequence of entries, oldest insertion first. *)
(***************************************************************************)
CacheKeys(c) == {c[i].key : i \in 1..Len(c)}

CacheHas(c, k) == k \in CacheKeys(c)

CacheGet(c, k) == c[CHOOSE i \in 1..Len(c) : c[i].key = k]

\* Mutant of CacheSet: a present key keeps its old entry.
CacheSetKeepsOld(c, e) == IF CacheHas(c, e.key) THEN c ELSE Append(c, e)

\* Map.set: a present key keeps its place, a new key goes last.
CacheSet(c, e) ==
    IF CacheHas(c, e.key)
    THEN [i \in 1..Len(c) |-> IF c[i].key = e.key THEN e ELSE c[i]]
    ELSE Append(c, e)

\* Mutant of CacheDelete: nothing is deleted.
CacheDeleteNothing(c, k) == c

\* Mutant of CacheDelete: every entry goes.
CacheDeleteAll(c, k) == <<>>

CacheDelete(c, k) == SelectSeq(c, LAMBDA e : e.key # k)

MapDelete(m, k) == [x \in DOMAIN m \ {k} |-> m[x]]

MapSet(m, k, v) == [x \in DOMAIN m \cup {k} |-> IF x = k THEN v ELSE m[x]]

(***************************************************************************)
(* The tag index.                                                          *)
(***************************************************************************)
\* Mutant of RemoveFromTagIndex: a tag that lost its last key stays.
RemoveFromTagIndexKeepsEmpty(ti, key, tags) ==
    [t \in DOMAIN ti |-> IF t \in tags THEN ti[t] \ {key} ELSE ti[t]]

RemoveFromTagIndex(ti, key, tags) ==
    LET dropped == {t \in DOMAIN ti : t \in tags /\ ti[t] \ {key} = {}}
    IN  [t \in DOMAIN ti \ dropped |->
            IF t \in tags THEN ti[t] \ {key} ELSE ti[t]]

AddToTagIndex(ti, key, tags) ==
    [t \in DOMAIN ti \cup tags |->
        IF t \in tags
        THEN (IF t \in DOMAIN ti THEN ti[t] ELSE {}) \cup {key}
        ELSE ti[t]]

(***************************************************************************)
(* Expiration tests.                                                       *)
(***************************************************************************)
\* Mutant of IsExpired: an entry without expiresAt counts as expired.
IsExpiredUnguarded(expiresAt, t) == ~Truthy(expiresAt) \/ t > expiresAt

IsExpired(expiresAt, t) == Truthy(expiresAt) /\ t > expiresAt

\* Mutant of WindowElapsed: the window ends one millisecond early.
WindowElapsedEarly(resetAt, t) == t >= resetAt

WindowElapsed(resetAt, t) == t > resetAt

(***************************************************************************)
(* History variables.                                                      *)
(***************************************************************************)
\* The keys of cache c2 by the time they entered the cache.
Entered(o, c2) ==
    LET kept == SelectSeq(o, LAMBDA k : CacheHas(c2, k))
        new  == SelectSeq([i \in 1..Len(c2) |-> c2[i].key],
                          LAMBDA k : \A j \in 1..Len(o) : o[j] # k)
    IN  kept \o new

\* What the caller of the last completed operation saw: the operation, its
\* arguments and its result (for set, also the time it completed at; for
\* clear(), the sizes the three maps had when it was called; for a get that
\* removed an expired entry, 1 and the number of its tags; for a set that
\* replaced an entry, the tags of that entry).
Event(op, key, tag, value, count, resetAt, ttl, at) ==
    [op |-> op, key |-> key, tag |-> tag, value |-> value,
     count |-> count, resetAt |-> resetAt, ttl |-> ttl, at |-> at,
     dropped |-> <<0, 0, 0>>, replaced |-> {}]

GetEvent(key, value) == Event("get", key, NoTag, value, 0, 0, Undefined, 0)

ExpiredEvent(key, entry) ==
    [GetEvent(key, NoValue) EXCEPT
        !.dropped = <<1, 0, Cardinality(entry.value.tags)>>]

OpEvent(op, key, tag) == Event(op, key, tag, NoValue, 0, 0, Undefined, 0)

\* The calls of increment on one key since its window began: how many, the
\* counts they returned, and whether a count was returned twice.
\* renewed: the window took the place of an elapsed one.
NoWindow == [open |-> FALSE, end |-> 0, n |-> 0, seen |-> {}, dup |-> FALSE,
             renewed |-> FALSE]

WindowLive(w, t) == w.open /\ t <= w.end

WinOf(key) == IF key \in DOMAIN win THEN win[key] ELSE NoWindow

WinAfter(w, t, ttl, count) ==
    IF ~WindowLive(w, t)
    THEN [open |-> TRUE, end |-> t + ttl, n |-> 1, seen |-> {count}, dup |-> FALSE,
          renewed |-> w.open]
    ELSE [open |-> TRUE, end |-> w.end, n |-> w.n + 1, seen |-> w.seen \cup {count},
          dup |-> w.dup \/ count \in w.seen, renewed |-> w.renewed]

(***************************************************************************)
(* MemoryStore.delete: the three maps after delete(key).                   *)
(***************************************************************************)
DeleteTagIndex(ti, c, key) ==
    IF CacheHas(c, key)
    THEN RemoveFromTagIndex(ti, key, CacheGet(c, key).value.tags)
    ELSE ti

(***************************************************************************)
(* MemoryStore.get                                                         *)
(***************************************************************************)
\* Mutant of Get: an expired entry is removed but its tags are not unwound.
GetKeepsTags(key) ==
    /\ IF ~CacheHas(cache, key)
       THEN /\ ret' = GetEvent(key, NoValue)
            /\ UNCHANGED <<cache, tagIndex>>
       ELSE LET entry == CacheGet(cache, key)
            IN  IF IsExpired(entry.expiresAt, now)
                THEN /\ cache' = CacheDelete(cache, key)
                     /\ ret' = ExpiredEvent(key, entry)
                     /\ UNCHANGED tagIndex
                ELSE /\ ret' = GetEvent(key, entry.value)
                     /\ UNCHANGED <<cache, tagIndex>>
    /\ order' = Entered(order, cache')
    /\ UNCHANGED <<cfg, chainVars, reqs, rateLimits, cleanupInterval, maxSize, now, mtq, win>>

Get(key) ==
    /\ IF ~CacheHas(cache, key)
       THEN /\ ret' = GetEvent(key, NoValue)
            /\ UNCHANGED <<cache, tagIndex>>
       ELSE LET entry == CacheGet(cache, key)
            IN  IF IsExpired(entry.expiresAt, now)
                THEN /\ cache' = CacheDelete(cache, key)
                     /\ tagIndex' = RemoveFromTagIndex(tagIndex, key, entry.value.tags)
                     /\ ret' = ExpiredEvent(key, entry)
                ELSE /\ ret' = GetEvent(key, entry.value)
                     /\ UNCHANGED <<cache, tagIndex>>
    /\ order' = Entered(order, cache')
    /\ UNCHANGED <<cfg, chainVars, reqs, rateLimits, cleanupInterval, maxSize, now, mtq, win>>

(***************************************************************************)
(* MemoryStore.set                                                         *)
(***************************************************************************)
NeedsEviction(c, m) == Truthy(m) /\ Len(c) >= m

\* this.cache.keys().next().value
FirstKey(c) == c[1].key

\* Mutant of Install: an overwrite keeps the expiration of the old entry.
InstallKeepsExpiration(key, value, ttl, c, ti) ==
    LET ti1 == IF CacheHas(c, key)
               THEN RemoveFromTagIndex(ti, key, CacheGet(c, key).value.tags)
               ELSE ti
        entry == [key |-> key, value |-> value,
                  expiresAt |-> IF CacheHas(c, key) THEN CacheGet(c, key).expiresAt
                                ELSE IF Truthy(ttl) THEN now + ttl ELSE Undefined]
    IN  /\ cache' = CacheSet(c, entry)
        /\ tagIndex' = AddToTagIndex(ti1, key, value.tags)
        /\ order' = Entered(order, cache')
        /\ ret' = [Event("set", key, NoTag, value, 0, 0, ttl, now) EXCEPT
                       !.replaced = IF CacheHas(c, key)
                                    THEN CacheGet(c, key).value.tags ELSE {}]

\* Lines 75-95: what follows the eviction step.
Install(key, value, ttl, c, ti) ==
    LET ti1 == IF CacheHas(c, key)
               THEN RemoveFromTagIndex(ti, key, CacheGet(c, key).value.tags)
               ELSE ti
        entry == [key |-> key, value |-> value,
                  expiresAt |-> IF Truthy(ttl) THEN now + ttl ELSE Undefined]
    IN  /\ cache' = CacheSet(c, entry)
        /\ tagIndex' = AddToTagIndex(ti1, key, value.tags)
        /\ order' = Entered(order, cache')
        /\ ret' = [Event("set", key, NoTag, value, 0, 0, ttl, now) EXCEPT
                       !.replaced = IF CacheHas(c, key)
                                    THEN CacheGet(c, key).value.tags ELSE {}]

Set(key, value, ttl) ==
    IF NeedsEviction(cache, maxSize) /\ Len(cache) > 0 /\ KeyTruthy(FirstKey(cache))
    THEN \* await this.delete(firstKey): the delete runs now, the rest later
         LET firstKey == FirstKey(cache)
         IN  /\ cache' = CacheDelete(cache, firstKey)
             /\ tagIndex' = DeleteTagIndex(tagIndex, cache, firstKey)
             /\ rateLimits' = MapDelete(rateLimits, firstKey)
             /\ win' = MapDelete(win, firstKey)
             /\ order' = Entered(order, cache')
             /\ mtq' = Append(mtq, [kind |-> "set", key |-> key, value |-> value,
                                    ttl |-> ttl, rest |-> <<>>])
             /\ ret' = OpEvent("evict", firstKey, NoTag)
             /\ UNCHANGED <<cfg, chainVars, reqs, cleanupInterval, maxSize, now>>
    ELSE /\ Install(key, value, ttl, cache, tagIndex)
         /\ UNCHANGED <<cfg, chainVars, reqs, rateLimits, cleanupInterval, maxSize, now, mtq, win>>

ResumeSet ==
    /\ mtq # <<>>
    /\ Head(mtq).kind = "set"
    /\ Install(Head(mtq).key, Head(mtq).value, Head(mtq).ttl, cache, tagIndex)
    /\ mtq' = Tail(mtq)
    /\ UNCHANGED <<cfg, chainVars, reqs, rateLimits, cleanupInterval, maxSize, now, win>>

(***************************************************************************)
(* MemoryStore.delete                                                      *)
(***************************************************************************)
\* Whether delete(key) found a cache entry and a counter.
DeleteEvent(key) ==
    [OpEvent("delete", key, NoTag) EXCEPT
        !.dropped = <<IF CacheHas(cache, key) THEN 1 ELSE 0,
                      IF key \in DOMAIN rateLimits THEN 1 ELSE 0, 0>>]

Delete(key) ==
    /\ cache' = CacheDelete(cache, key)
    /\ tagIndex' = DeleteTagIndex(tagIndex, cache, key)
    /\ rateLimits' = MapDelete(rateLimits, key)
    /\ win' = MapDelete(win, key)
    /\ order' = Entered(order, cache')
    /\ ret' = DeleteEvent(key)
    /\ UNCHANGED <<cfg, chainVars, reqs, cleanupInterval, maxSize, now, mtq>>

(***************************************************************************)
(* MemoryStore.increment                                                   *)
(***************************************************************************)
DefaultIncrementTtl == 60000

IncrementTtl(ttl) == IF ttl = Undefined THEN DefaultIncrementTtl ELSE ttl

StartsWindow(rl, key, t) == key \notin DOMAIN rl \/ WindowElapsed(rl[key].resetAt, t)

\* Mutant of NextCount: the update is lost.
NextCountLost(count) == count

NextCount(count) == count + 1

\* Mutant of IncrementEntry: every call moves the end of the window.
IncrementEntrySliding(rl, key, ttl, t) ==
    IF StartsWindow(rl, key, t)
    THEN [count |-> 1, resetAt |-> t + IncrementTtl(ttl)]
    ELSE [count |-> NextCount(rl[key].count), resetAt |-> t + IncrementTtl(ttl)]

\* Mutant of IncrementEntry: a longer ttl of a later call extends the window.
IncrementEntryExtends(rl, key, ttl, t) ==
    IF StartsWindow(rl, key, t)
    THEN [count |-> 1, resetAt |-> t + IncrementTtl(ttl)]
    ELSE [count |-> NextCount(rl[key].count),
          resetAt |-> IF t + IncrementTtl(ttl) > rl[key].resetAt
                      THEN t + IncrementTtl(ttl) ELSE rl[key].resetAt]

\* The entry of key after increment(key, ttl) at time t; the call returns
\* its count and resetAt.
IncrementEntry(rl, key, ttl, t) ==
    IF StartsWindow(rl, key, t)
    THEN [count |-> 1, resetAt |-> t + IncrementTtl(ttl)]
    ELSE [count |-> NextCount(rl[key].count), resetAt |-> rl[key].resetAt]

\* The guard caps the counter at the model's bound.
IncrementStore(key, ttl) ==
    LET entry == IncrementEntry(rateLimits, key, ttl, now)
    IN  /\ entry.count <= MaxCount
        /\ rateLimits' = MapSet(rateLimits, key, entry)
        /\ win' = MapSet(win, key, WinAfter(WinOf(key), now, IncrementTtl(ttl), entry.count))
        /\ ret' = Event("increment", key, NoTag, NoValue, entry.count, entry.resetAt,
                        ttl, 0)
        /\ UNCHANGED <<cache, tagIndex, cleanupInterval, maxSize, now, order>>

\* A direct caller of increment, awaiting the result.
Increment(key, ttl) ==
    /\ IncrementStore(key, ttl)
    /\ UNCHANGED <<mtq, cfg, chainVars, reqs>>

\* A direct caller of increment that does not await it: the result is the
\* value of a promise the caller takes up later.
IncrementCall(key, ttl) ==
    /\ IncrementStore(key, ttl)
    /\ mtq' = Append(mtq, [kind |-> "caller", key |-> key, count |-> ret'.count,
                           resetAt |-> ret'.resetAt])
    /\ UNCHANGED <<cfg, chainVars, reqs>>

ResumeCaller ==
    /\ mtq # <<>>
    /\ Head(mtq).kind = "caller"
    /\ mtq' = Tail(mtq)
    /\ ret' = Event("result", Head(mtq).key, NoTag, NoValue, Head(mtq).count,
                    Head(mtq).resetAt, Undefined, 0)
    /\ UNCHANGED <<cache, rateLimits, tagIndex, cleanupInterval, maxSize, now, order, win,
                   cfg, chainVars, reqs>>

(***************************************************************************)
(* MemoryStore.invalidateByTag                                             *)
(***************************************************************************)
InvalidateByTag(tag) ==
    /\ IF tag \notin DOMAIN tagIndex
       THEN UNCHANGED <<cache, tagIndex>>
       ELSE /\ cache' = SelectSeq(cache, LAMBDA e : e.key \notin tagIndex[tag])
            /\ tagIndex' = MapDelete(tagIndex, tag)
    /\ order' = Entered(order, cache')
    /\ ret' = OpEvent("invalidateByTag", NoKey, tag)
    /\ UNCHANGED <<cfg, chainVars, reqs, rateLimits, cleanupInterval, maxSize, now, mtq, win>>

(***************************************************************************)
(* MemoryStore.matchesPattern and MemoryStore.clear                        *)
(***************************************************************************)
Star == "*"

\* What '.' of a JavaScript regular expression matches: no line terminator.
IsDot(ch) == ch \notin {"\n", "\r"}

\* new RegExp('^' + segments.join('.*') + '$').test(key), every segment
\* escaped to a literal.
RECURSIVE RegexTest(_, _)
RegexTest(key, pattern) ==
    IF pattern = <<>> THEN key = <<>>
    ELSE IF Head(pattern) = Star
    THEN \/ RegexTest(key, Tail(pattern))
         \/ key # <<>> /\ IsDot(Head(key)) /\ RegexTest(Tail(key), pattern)
    ELSE key # <<>> /\ Head(key) = Head(pattern) /\ RegexTest(Tail(key), Tail(pattern))

Includes(pattern, ch) == \E i \in 1..Len(pattern) : pattern[i] = ch

MatchesPattern(key, pattern) ==
    IF Includes(pattern, Star) THEN RegexTest(key, pattern) ELSE key = pattern

\* Lines 163-168: the counters whose key matches are dropped.
ClearRateLimits(rl, pattern) ==
    [k \in {x \in DOMAIN rl : ~MatchesPattern(x, pattern)} |-> rl[k]]

ClearAllEvent ==
    [OpEvent("clear", <<>>, NoTag) EXCEPT
        !.dropped = <<Len(cache), Cardinality(DOMAIN rateLimits),
                      Cardinality(DOMAIN tagIndex)>>]

\* Mutant of ClearAll: the counters are kept.
ClearAllKeepsCounters ==
    /\ cache' = <<>>
    /\ tagIndex' = <<>>
    /\ order' = <<>>
    /\ ret' = ClearAllEvent
    /\ UNCHANGED <<cfg, chainVars, reqs, cleanupInterval, maxSize, now, mtq, rateLimits, win>>

\* clear() and clear(''): everything goes.
ClearAll ==
    /\ cache' = <<>>
    /\ rateLimits' = <<>>
    /\ tagIndex' = <<>>
    /\ order' = <<>>
    /\ win' = <<>>
    /\ ret' = ClearAllEvent
    /\ UNCHANGED <<cfg, chainVars, reqs, cleanupInterval, maxSize, now, mtq>>

ClearFinish(pattern) ==
    /\ rateLimits' = ClearRateLimits(rateLimits, pattern)
    /\ win' = [k \in {x \in DOMAIN win : ~MatchesPattern(x, pattern)} |-> win[k]]
    /\ ret' = OpEvent("clear", pattern, NoTag)

\* One turn of "for (const key of keysToDelete) await this.delete(key)".
ClearDelete(pattern, keysToDelete, queue) ==
    LET key == Head(keysToDelete)
    IN  /\ cache' = CacheDelete(cache, key)
        /\ tagIndex' = DeleteTagIndex(tagIndex, cache, key)
        /\ rateLimits' = MapDelete(rateLimits, key)
        /\ win' = MapDelete(win, key)
        /\ order' = Entered(order, cache')
        /\ mtq' = Append(queue, [kind |-> "clear", key |-> pattern, value |-> NoValue,
                                 ttl |-> Undefined, rest |-> Tail(keysToDelete)])
        /\ ret' = OpEvent("clearing", key, NoTag)

ClearPattern(pattern) ==
    LET keysToDelete == SelectSeq([i \in 1..Len(cache) |-> cache[i].key],
                                  LAMBDA k : MatchesPattern(k, pattern))
    IN  /\ pattern # <<>>
        /\ IF keysToDelete = <<>>
           THEN /\ ClearFinish(pattern)
                /\ UNCHANGED <<cache, tagIndex, order, mtq>>
           ELSE ClearDelete(pattern, keysToDelete, mtq)
        /\ UNCHANGED <<cfg, chainVars, reqs, cleanupInterval, maxSize, now>>

ResumeClear ==
    /\ mtq # <<>>
    /\ Head(mtq).kind = "clear"
    /\ IF Head(mtq).rest = <<>>
       THEN /\ ClearFinish(Head(mtq).key)
            /\ mtq' = Tail(mtq)
            /\ UNCHANGED <<cache, tagIndex, order>>
       ELSE ClearDelete(Head(mtq).key, Head(mtq).rest, Tail(mtq))
    /\ UNCHANGED <<cfg, chainVars, reqs, cleanupInterval, maxSize, now>>

(***************************************************************************)
(* MemoryStore.cleanupExpired, run by the interval timer, and destroy.     *)
(* A timer callback is a macrotask: it runs when no microtask is pending.  *)
(***************************************************************************)
\* Mutant of SweptCache: every entry that has a TTL goes, due or not.
SweptCacheEveryTtl(c, t) == SelectSeq(c, LAMBDA e : ~Truthy(e.expiresAt))

SweptCache(c, t) == SelectSeq(c, LAMBDA e : ~IsExpired(e.expiresAt, t))

RECURSIVE SweptTagIndex(_, _, _)
SweptTagIndex(ti, c, t) ==
    IF c = <<>> THEN ti
    ELSE SweptTagIndex(
            IF IsExpired(Head(c).expiresAt, t)
            THEN RemoveFromTagIndex(ti, Head(c).key, Head(c).value.tags)
            ELSE ti,
            Tail(c), t)

\* Mutant of SweptRateLimits: the sweep leaves the counters alone.
SweptRateLimitsKeeps(rl, t) == rl

SweptRateLimits(rl, t) ==
    [k \in {x \in DOMAIN rl : ~WindowElapsed(rl[x].resetAt, t)} |-> rl[k]]

CleanupExpired ==
    /\ cleanupInterval
    /\ mtq = <<>>
    /\ cache' = SweptCache(cache, now)
    /\ tagIndex' = SweptTagIndex(tagIndex, cache, now)
    /\ rateLimits' = SweptRateLimits(rateLimits, now)
    /\ order' = Entered(order, cache')
    /\ UNCHANGED <<cfg, chainVars, reqs, cleanupInterval, maxSize, now, mtq, ret, win>>

Destroy ==
    /\ cleanupInterval
    /\ cleanupInterval' = FALSE
    /\ UNCHANGED <<cfg, chainVars, reqs, cache, rateLimits, tagIndex, maxSize, now, mtq, ret, order, win>>

(***************************************************************************)
(* parseDuration (src/src/utils/duration.ts). The input is a number or a   *)
(* string; the result is the milliseconds, or the error thrown.            *)
(***************************************************************************)
DurationNumber(n) == [type |-> "number", n |-> n, s |-> <<>>]
DurationString(s) == [type |-> "string", n |-> 0, s |-> s]

Digits == <<"0", "1", "2", "3", "4", "5", "6", "7", "8", "9">>

IsDigit(ch) == \E i \in 1..10 : Digits[i] = ch

DigitValue(ch) == (CHOOSE i \in 1..10 : Digits[i] = ch) - 1

Units == [s |-> 1000, m |-> 60 * 1000, h |-> 60 * 60 * 1000, d |-> 24 * 60 * 60 * 1000]

\* parseInt(value, 10) of a string of digits.
RECURSIVE ParseInt(_)
ParseInt(value) ==
    IF value = <<>> THEN 0
    ELSE 10 * ParseInt(SubSeq(value, 1, Len(value) - 1)) + DigitValue(value[Len(value)])

\* Mutant of DurationMatches: the digits may be missing, /^(\d*)(s|m|h|d)$/.
DurationMatchesNoDigit(s) ==
    /\ Len(s) >= 1
    /\ \A i \in 1..(Len(s) - 1) : IsDigit(s[i])
    /\ s[Len(s)] \in DOMAIN Units

\* input.match(/^(\d+)(s|m|h|d)$/)
DurationMatches(s) ==
    /\ Len(s) >= 2
    /\ \A i \in 1..(Len(s) - 1) : IsDigit(s[i])
    /\ s[Len(s)] \in DOMAIN Units

\* A JavaScript number that may exceed the checker's 32-bit integers is
\* kept as its thousands k and the rest r: the number is 1000 * k + r.
Wide(n) == [k |-> n \div 1000, r |-> n % 1000]

WideValue(w) == 1000 * w.k + w.r

\* n * m as a wide number.
Times(n, m) ==
    [k |-> n * (m \div 1000) + (n * (m % 1000)) \div 1000,
     r |-> (n * (m % 1000)) % 1000]

Threw == [ok |-> FALSE, ms |-> Wide(0)]

ParseDuration(input) ==
    IF input.type = "number" THEN [ok |-> TRUE, ms |-> Wide(input.n)]
    ELSE IF ~DurationMatches(input.s) THEN Threw
    ELSE [ok |-> TRUE,
          ms |-> Times(ParseInt(SubSeq(input.s, 1, Len(input.s) - 1)),
                       Units[input.s[Len(input.s)]])]

(***************************************************************************)
(* Key generators (src/src/utils/duration.ts, lines 41-57).                *)
(***************************************************************************)
Unknown == <<"unknown">>

\* a || b || c of strings
OrElse(a, b) == IF KeyTruthy(a) THEN a ELSE b

DefaultRateLimitKey(req) == OrElse(req.ip, OrElse(req.remoteAddress, Unknown))

(***************************************************************************)
(* createRateLimitMiddleware (src/src/middleware/rateLimit.ts). Every      *)
(* middleware is created with cfg and uses the shared defaultStore.        *)
(***************************************************************************)
DefaultWindow == DurationString(<<"1", "5", "m">>)

WindowMs == WideValue(ParseDuration(IF cfg.window = Undefined THEN DefaultWindow
                                    ELSE DurationNumber(cfg.window)).ms)

\* req.route?.path || req.path || 'unknown'
RoutePath(req) == OrElse(req.route, OrElse(req.path, Unknown))

\* Mutant of RateLimitKey: the client is left out of the key.
RateLimitKeyNoClient(routePath, clientKey) == <<"ratelimit", ":">> \o routePath

\* `ratelimit:${routePath}:${clientKey}`
RateLimitKey(routePath, clientKey) == <<"ratelimit", ":">> \o routePath \o <<":">> \o clientKey

RequestKey(req) == RateLimitKey(RoutePath(req), DefaultRateLimitKey(req))

SkipRules == cfg.skipFailedRequests \/ cfg.skipSuccessfulRequests

Max(a, b) == IF a >= b THEN a ELSE b

\* Mutant of Remaining: the difference is not clamped at 0.
RemainingUnclamped(limit, count) == limit - count

Remaining(limit, count) == Max(0, limit - count)

LimitExceeded(count, limit) == count > limit

\* Math.ceil(ms / 1000)
CeilSeconds(ms) == -((-ms) \div 1000)

\* Number.prototype.toString of an integer, in decimal.
RECURSIVE NumberToString(_)
NumberToString(n) ==
    IF n < 0 THEN <<"-">> \o NumberToString(-n)
    ELSE IF n < 10 THEN <<Digits[n + 1]>>
    ELSE NumberToString(n \div 10) \o <<Digits[(n % 10) + 1]>>

NoHeader == <<>>

\* What is known of one invocation of the middleware: the request, its key,
\* the result of increment (store: whether increment worked, threw or
\* rejected), the headers set, the calls of next() and of next(error), the
\* response status, the calls of onLimitReached, and how the promise of the
\* (async) middleware settled.
NewRequest(req, phase) ==
    [req |-> req, key |-> RequestKey(req), phase |-> phase, count |-> 0, resetAt |-> 0,
     remaining |-> Undefined, retryAfter |-> Undefined, next |-> 0, status |-> 0,
     handled |-> 0, counted |-> 0, store |-> "ok", xRemaining |-> NoHeader,
     nextError |-> 0, settled |-> "pending"]

\* Mutant of Caught: the error is rethrown instead of swallowed.
CaughtRethrows(r) == [r EXCEPT !.phase = "done", !.settled = "rejected"]

\* Lines 149-153: the catch block logs the error and calls next().
Caught(r) == [r EXCEPT !.phase = "done", !.next = @ + 1, !.settled = "resolved"]


\* The middleware is invoked for req: lines 85-120, up to the await of
\* store.increment, or to the end when a skip rule is configured.
Arrive(req) ==
    /\ Len(reqs) < MaxReqs
    /\ IF SkipRules
       THEN \* res.send is wrapped and next() is called
            /\ reqs' = Append(reqs, [NewRequest(req, "hooked") EXCEPT
                                        !.next = 1, !.settled = "resolved"])
            /\ UNCHANGED <<cache, rateLimits, tagIndex, cleanupInterval, maxSize, now,
                           mtq, ret, order, win>>
       ELSE /\ IncrementStore(RequestKey(req), WindowMs)
            /\ reqs' = Append(reqs, NewRequest(req, "awaiting"))
            /\ mtq' = Append(mtq, [kind |-> "request", id |-> Len(reqs) + 1,
                                   rejected |-> FALSE,
                                   count |-> ret'.count, resetAt |-> ret'.resetAt])
    /\ UNCHANGED <<cfg, chainVars>>

\* The middleware is invoked for req with a store whose increment fails:
\* it throws at the call (the catch block runs at once) or returns a promise
\* that rejects (the catch block runs when the middleware is resumed).
ArriveStoreFails(req, how) ==
    /\ Len(reqs) < MaxReqs
    /\ ~SkipRules
    /\ IF how = "threw"
       THEN /\ reqs' = Append(reqs, Caught([NewRequest(req, "awaiting") EXCEPT
                                               !.store = how]))
            /\ UNCHANGED mtq
       ELSE /\ reqs' = Append(reqs, [NewRequest(req, "awaiting") EXCEPT !.store = how])
            /\ mtq' = Append(mtq, [kind |-> "request", id |-> Len(reqs) + 1,
                                   rejected |-> TRUE, count |-> 0, resetAt |-> 0])
    /\ UNCHANGED <<cache, rateLimits, tagIndex, cleanupInterval, maxSize, now, ret, order,
                   win, cfg, chainVars>>

\* Lines 122-153: the middleware goes on with the result of increment.
\* jsonThrows: whether res.status(429).json(...) raises an error.
Decide(r, count, resetAt, jsonThrows) ==
    LET counted == [r EXCEPT !.phase = "done", !.count = count, !.resetAt = resetAt,
                             !.remaining = Remaining(cfg.limit, count),
                             !.xRemaining = NumberToString(Remaining(cfg.limit, count)),
                             !.settled = "resolved"]
    IN  IF LimitExceeded(count, cfg.limit)
        THEN LET denied == [counted EXCEPT !.retryAfter = CeilSeconds(resetAt - now)]
             IN  IF cfg.onLimitReached # "none"
                 THEN IF cfg.onLimitReached = "throws"
                      THEN Caught([denied EXCEPT !.handled = @ + 1])
                      ELSE [denied EXCEPT !.handled = @ + 1]
                 ELSE IF jsonThrows
                      THEN Caught(denied)
                      ELSE [denied EXCEPT !.status = 429]
        ELSE [counted EXCEPT !.next = @ + 1]

ResumeRequest ==
    /\ mtq # <<>>
    /\ Head(mtq).kind = "request"
    /\ IF Head(mtq).rejected
       THEN reqs' = [reqs EXCEPT ![Head(mtq).id] = Caught(@)]
       ELSE \E jsonThrows \in BOOLEAN :
               reqs' = [reqs EXCEPT ![Head(mtq).id] =
                           Decide(@, Head(mtq).count, Head(mtq).resetAt, jsonThrows)]
    /\ mtq' = Tail(mtq)
    /\ UNCHANGED <<cache, rateLimits, tagIndex, cleanupInterval, maxSize, now, ret, order,
                   win, cfg, chainVars>>

\* Mutant of Counts: the skip rules are not looked at.
CountsAlways(statusCode) == TRUE

\* The wrapped res.send of a request handled under a skip rule (lines 96-113).
Counts(statusCode) ==
    /\ ~(cfg.skipFailedRequests /\ statusCode >= 400)
    /\ ~(cfg.skipSuccessfulRequests /\ statusCode < 400)

Send(id, statusCode) ==
    /\ id \in 1..Len(reqs)
    /\ reqs[id].phase = "hooked"
    /\ IF Counts(statusCode)
       THEN /\ IncrementStore(reqs[id].key, WindowMs)
            /\ reqs' = [reqs EXCEPT ![id].phase = "done", ![id].status = statusCode,
                                    ![id].counted = 1, ![id].count = ret'.count]
       ELSE /\ reqs' = [reqs EXCEPT ![id].phase = "done", ![id].status = statusCode]
            /\ UNCHANGED <<cache, rateLimits, tagIndex, cleanupInterval, maxSize, now,
                           ret, order, win>>
    /\ UNCHANGED <<mtq, cfg, chainVars>>

(***************************************************************************)
(* Time.                                                                   *)
(***************************************************************************)
Tick ==
    /\ now < MaxTime
    /\ now' = now + 1
    /\ UNCHANGED <<cfg, chainVars, reqs, cache, rateLimits, tagIndex, cleanupInterval, maxSize, mtq, ret,
                   order, win>>

NoEvent == OpEvent("none", NoKey, NoTag)

InitStore ==
    /\ cache = <<>>
    /\ rateLimits = <<>>
    /\ tagIndex = <<>>
    /\ cleanupInterval = TRUE
    /\ now = 1
    /\ mtq = <<>>
    /\ ret = NoEvent
    /\ order = <<>>
    /\ win = <<>>
    /\ reqs = <<>>
    /\ NoChains

\* A configuration without skip rules and without a limit-reached handler.
PlainConfig(limit, window) ==
    [limit |-> limit, window |-> window, skipFailedRequests |-> FALSE,
     skipSuccessfulRequests |-> FALSE, onLimitReached |-> "none"]

\* A caller that awaits each call before it issues the next.
Idle == mtq = <<>>

\* A caller that issues calls without awaiting the ones still suspended.
CanCall == Len(mtq) < MaxPending

(***************************************************************************)
(* SpecTtl: values with and without TTL in a store of at most one entry or *)
(* of any size; calls may overlap.                                         *)
(***************************************************************************)
KeysTtl == {<<"a">>, <<"b">>}
Ttls == {Undefined, 0, 1, 2}

InitTtl ==
    /\ InitStore
    /\ maxSize \in {Undefined, 1}
    /\ cfg = PlainConfig(1, 1)

NextTtl ==
    \/ \E k \in KeysTtl : Get(k)
    \/ CanCall /\ \E k \in KeysTtl, d \in Data, ttl \in Ttls : Set(k, StoreValue(d, {}), ttl)
    \/ ResumeSet
    \/ CanCall /\ \E k \in KeysTtl : Delete(k)
    \/ CleanupExpired
    \/ Tick

SpecTtl == InitTtl /\ [][NextTtl]_vars

TtlExpiry ==
    [][\A k \in KeysTtl :
          (ret.op = "set" /\ ret.key = k /\ Truthy(ret.ttl) /\ Get(k))
              => ret'.value = (IF now - ret.at < ret.ttl THEN ret.value ELSE NoValue)]_vars

\* C19: an entry stored without TTL has no expiration instant; the passing
\* of time, the sweep and get leave it in the cache, and get returns it.
NoTtlNeverExpires ==
    [][/\ (ret'.op = "set" /\ ~Truthy(ret'.ttl))
             => ~Truthy(CacheGet(cache', ret'.key).expiresAt)
       /\ (Tick \/ CleanupExpired \/ \E k \in KeysTtl : Get(k))
             => \A i \in 1..Len(cache) :
                   ~Truthy(cache[i].expiresAt)
                       => \E j \in 1..Len(cache') : cache'[j] = cache[i]
       /\ \A k \in KeysTtl :
             (Get(k) /\ CacheHas(cache, k) /\ ~Truthy(CacheGet(cache, k).expiresAt))
                 => ret'.value = CacheGet(cache, k).value]_vars

\* C19 witness: at the latest time, get has returned an entry that has no
\* expiration instant, next to an entry that has one.
NoTtlNeverExpiresWitness ==
    /\ now = MaxTime
    /\ ret.op = "get" /\ ret.value # NoValue
    /\ CacheHas(cache, ret.key)
    /\ ~Truthy(CacheGet(cache, ret.key).expiresAt)
    /\ \E i \in 1..Len(cache) : Truthy(cache[i].expiresAt)

Patterns == {<<"*">>, <<"a">>}

(***************************************************************************)
(* SpecTags: tagged values, with and without TTL, in an unbounded store;   *)
(* one caller, awaiting every call.                                        *)
(***************************************************************************)
KeysTags == {<<"a">>, <<"b">>}

InitTags ==
    /\ InitStore
    /\ maxSize = Undefined
    /\ cfg = PlainConfig(1, 1)

NextTags ==
    \/ Idle /\ \E k \in KeysTags : Get(k)
    \/ Idle /\ \E k \in KeysTags, tags \in SUBSET Tags, ttl \in {Undefined, 1} :
          Set(k, StoreValue("v1", tags), ttl)
    \/ Idle /\ \E k \in KeysTags : Delete(k)
    \/ Idle /\ \E t \in Tags : InvalidateByTag(t)
    \/ Idle /\ ClearAll
    \/ Idle /\ \E p \in Patterns : ClearPattern(p)
    \/ ResumeClear
    \/ CleanupExpired
    \/ Tick

SpecTags == InitTags /\ [][NextTags]_vars

TaggedWith(c, t) == {k \in CacheKeys(c) : t \in CacheGet(c, k).value.tags}

\* C6: invalidateByTag(t) removes exactly the cache entries whose current
\* tags contain t; for a tag that no entry carries it changes nothing.
TagInvalidationExact ==
    [][\A t \in Tags :
          InvalidateByTag(t)
              => /\ CacheKeys(cache) \ CacheKeys(cache') = TaggedWith(cache, t)
                 /\ TaggedWith(cache, t) = {} => cache' = cache]_vars

\* C24: a key is in the index set of tag T iff the cache holds an entry for
\* the key whose tags contain T.
TagIndexInvariant ==
    \A t \in Tags, k \in KeysTags :
        (t \in DOMAIN tagIndex /\ k \in tagIndex[t])
            <=> (CacheHas(cache, k) /\ t \in CacheGet(cache, k).value.tags)

\* C25: every tag of the index has at least one key.
NoEmptyTagSets == \A t \in DOMAIN tagIndex : tagIndex[t] # {}

\* C25 witness: get has removed an expired entry that was the last one of
\* its two tags, while another entry is in the store.
NoEmptyTagSetsWitness ==
    /\ ret.op = "get" /\ ret.dropped = <<1, 0, 2>>
    /\ cache # <<>>
    /\ DOMAIN tagIndex = {}

\* C26: after set(k, v1) with tags S1 directly followed by set(k, v2) with
\* tags S2, k is in the index set of exactly the tags of S2, and
\* invalidating a tag that is in S1 and not in S2, while the entry has not
\* expired away, leaves k with v2 in the store.
OverwriteResetsTags ==
    [][\A k \in KeysTags, tags \in SUBSET Tags :
          /\ (/\ ret.op = "set" /\ ret.key = k
               /\ \E ttl \in {Undefined, 1} : Set(k, StoreValue("v1", tags), ttl))
                => \A t \in Tags :
                      (t \in DOMAIN tagIndex' /\ k \in tagIndex'[t]) <=> t \in tags
          /\ \A t \in Tags :
                (/\ ret.op = "set" /\ ret.key = k /\ ret.value.tags = tags
                 /\ t \in ret.replaced \ tags
                 /\ CacheHas(cache, k)
                 /\ InvalidateByTag(t))
                    => CacheHas(cache', k) /\ CacheGet(cache', k).value = ret.value]_vars

\* C27: a get that finds an entry whose expiration instant has passed
\* returns absent, removes the entry and takes the key out of the index set
\* of each of its tags; any other get changes nothing in the store.
LazyExpiration ==
    [][\A k \in KeysTags :
          Get(k) =>
              IF CacheHas(cache, k) /\ CacheGet(cache, k).expiresAt # Undefined
                    /\ now > CacheGet(cache, k).expiresAt
              THEN /\ ret'.value = NoValue
                   /\ ~CacheHas(cache', k)
                   /\ \A t \in CacheGet(cache, k).value.tags :
                         t \in DOMAIN tagIndex' => k \notin tagIndex'[t]
                   /\ \A j \in KeysTags \ {k} :
                         CacheHas(cache, j)
                             => CacheHas(cache', j) /\ CacheGet(cache', j) = CacheGet(cache, j)
                   /\ rateLimits' = rateLimits
              ELSE UNCHANGED <<cache, rateLimits, tagIndex>>]_vars

\* C27 witness: get has removed an expired entry carrying two tags; the
\* other entry, which shares the tags, is still indexed under both.
LazyExpirationWitness ==
    /\ ret.op = "get" /\ ret.dropped = <<1, 0, 2>>
    /\ ~CacheHas(cache, ret.key)
    /\ \E j \in KeysTags : CacheHas(cache, j) /\ CacheGet(cache, j).value.tags = Tags
    /\ \A t \in Tags : t \in DOMAIN tagIndex /\ Cardinality(tagIndex[t]) = 1

(***************************************************************************)
(* SpecCounter: callers of increment that do not await one another.        *)
(***************************************************************************)
KeysCounter == {<<"A">>, <<"B">>}
TtlsCounter == {1, 2}

InitCounter ==
    /\ InitStore
    /\ maxSize = Undefined
    /\ cfg = PlainConfig(1, 1)

NextCounter ==
    \/ CanCall /\ \E k \in KeysCounter, ttl \in TtlsCounter : IncrementCall(k, ttl)
    \/ ResumeCaller
    \/ CleanupExpired
    \/ Tick

SpecCounter == InitCounter /\ [][NextCounter]_vars

\* C2: the n-th increment of a key within one window returns count = n; the
\* first one after the window has elapsed returns count = 1 and
\* resetAt = now + t.
FixedWindowCounting ==
    [][\A k \in KeysCounter, ttl \in TtlsCounter :
          IncrementCall(k, ttl)
              => IF WindowLive(WinOf(k), now)
                 THEN ret'.count = WinOf(k).n + 1
                 ELSE ret'.count = 1 /\ ret'.resetAt = now + ttl]_vars

\* C2 witness: a window that took the place of an elapsed one has had its
\* second call.
FixedWindowWitness ==
    \E k \in DOMAIN win :
        /\ win[k].renewed /\ win[k].n = 2
        /\ ret.op = "increment" /\ ret.key = k /\ ret.count = 2

Pending(k) ==
    {i \in 1..Len(mtq) : mtq[i].kind = "caller" /\ mtq[i].key = k}

\* C3: the increments of a key issued within one window, awaited or not,
\* return the counts 1..N, none twice, and leave the stored count at N.
NoLostUpdates ==
    \A k \in DOMAIN win :
        /\ ~win[k].dup
        /\ win[k].seen = 1..win[k].n
        /\ k \in DOMAIN rateLimits => rateLimits[k].count = win[k].n
        /\ \A i, j \in Pending(k) :
              (i # j /\ mtq[i].resetAt = mtq[j].resetAt) => mtq[i].count # mtq[j].count

\* C3 witness: MaxPending increments of one key are pending together, all
\* issued in one window.
NoLostUpdatesWitness ==
    \E k \in DOMAIN win :
        /\ Cardinality(Pending(k)) = MaxPending
        /\ \A i, j \in Pending(k) : mtq[i].resetAt = mtq[j].resetAt
        /\ win[k].n = MaxPending
        /\ rateLimits[k].count = MaxPending

\* C36: within a window every increment of a key returns the resetAt of the
\* window, which is the time of its first increment plus the ttl of that
\* first increment, whatever the ttl of the later call is, and a count one
\* above the count returned before it; the stored entry says the same.
WindowFixed ==
    [][\A k \in KeysCounter, ttl \in TtlsCounter :
          IncrementCall(k, ttl)
              => /\ IF WindowLive(WinOf(k), now)
                    THEN /\ ret'.resetAt = WinOf(k).end
                         /\ ret'.resetAt = rateLimits[k].resetAt
                         /\ ret'.count = rateLimits[k].count + 1
                    ELSE /\ ret'.resetAt = now + ttl
                         /\ ret'.count = 1
                 /\ rateLimits'[k] = [count |-> ret'.count, resetAt |-> ret'.resetAt]]_vars

\* C36 witness: the second increment of a window was made with a ttl that
\* would have ended later than the window does; it returned the resetAt of
\* the window.
WindowFixedWitness ==
    /\ ret.op = "increment"
    /\ ret.count = 2
    /\ ret.key \in DOMAIN win /\ win[ret.key].n = 2
    /\ ret.resetAt = win[ret.key].end
    /\ ret.ttl = 2
    /\ now + ret.ttl > ret.resetAt

(***************************************************************************)
(* SpecRate: requests to three endpoints, each behind a rate-limit         *)
(* middleware without skip rules; all middlewares use the default store.   *)
(***************************************************************************)
Request(method, route, ip) ==
    [method |-> method, route |-> route, path |-> route, ip |-> ip, remoteAddress |-> ip]

Requests ==
    {Request("GET", <<"/users">>, <<"c1">>), Request("POST", <<"/users">>, <<"c1">>),
     Request("GET", <<"/posts">>, <<"c1">>), Request("GET", <<"/users">>, <<"c2">>)}

Endpoint(req) == <<req.method, req.route>>

InitRate ==
    /\ InitStore
    /\ maxSize = Undefined
    /\ cfg \in [limit : {1, 2}, window : {1}, skipFailedRequests : {FALSE},
                 skipSuccessfulRequests : {FALSE},
                 onLimitReached : {"none", "returns", "throws"}]

NextRate ==
    \/ \E req \in Requests : Arrive(req)
    \/ ResumeRequest
    \/ CleanupExpired
    \/ Tick

SpecRate == InitRate /\ [][NextRate]_vars

Done(i) == reqs[i].phase = "done"

\* C1: a request proceeds iff the count its increment returned is <= limit,
\* and is denied (limit-reached handler or 429) iff the count is > limit.
RateLimitCeiling ==
    \A i \in 1..Len(reqs) :
        Done(i) =>
            /\ reqs[i].next > 0 <=> reqs[i].count <= cfg.limit
            /\ (reqs[i].handled > 0 \/ reqs[i].status = 429) <=> reqs[i].count > cfg.limit

CounterOf(rl, key) == IF key \in DOMAIN rl THEN rl[key] ELSE [count |-> 0, resetAt |-> 0]

\* C9: a request to one endpoint leaves the counter of every other endpoint
\* (another method or another route path) as it is, for every client.
EndpointIsolation ==
    [][\A req, other \in Requests :
          (Arrive(req) /\ Endpoint(other) # Endpoint(req))
              => CounterOf(rateLimits', RequestKey(other))
                     = CounterOf(rateLimits, RequestKey(other))]_vars

\* C10: the increment made for a request leaves the counter of every other
\* key as it is (requests of another client or another route path count
\* under another key) and returns the request's own count, one more than the calls
\* of its own key in the current window; a request whose own count is within
\* the limit proceeds, whatever the other counters hold.
CounterIndependence ==
    [][/\ \A req \in Requests :
             Arrive(req)
                 => /\ \A k \in (DOMAIN rateLimits \cup DOMAIN rateLimits') \ {RequestKey(req)} :
                          /\ k \in DOMAIN rateLimits /\ k \in DOMAIN rateLimits'
                          /\ rateLimits'[k] = rateLimits[k]
                    /\ \A other \in Requests :
                          (\/ DefaultRateLimitKey(other) # DefaultRateLimitKey(req)
                           \/ RoutePath(other) # RoutePath(req))
                              => CounterOf(rateLimits', RequestKey(other))
                                     = CounterOf(rateLimits, RequestKey(other))
                    /\ ret'.count = IF WindowLive(WinOf(RequestKey(req)), now)
                                    THEN WinOf(RequestKey(req)).n + 1
                                    ELSE 1
       /\ ResumeRequest
             => (Head(mtq).count <= cfg.limit => reqs'[Head(mtq).id].next = 1)]_vars

\* C10 witness: a client is over its limit on an endpoint and a request of
\* another client to the same endpoint has proceeded with count 1.
CounterIndependenceWitness ==
    \E i, j \in 1..Len(reqs) :
        /\ i < j /\ Done(i) /\ Done(j)
        /\ reqs[i].key # reqs[j].key
        /\ reqs[i].count > cfg.limit
        /\ reqs[j].count = 1 /\ reqs[j].next = 1

\* C12: a request whose increment returned count > limit never has next
\* called; it ends in exactly one of onLimitReached (called once) and the
\* 429 response, also when onLimitReached or the response write throws.
DenyTerminal ==
    \A i \in 1..Len(reqs) :
        (Done(i) /\ reqs[i].store = "ok" /\ reqs[i].count > cfg.limit)
            => /\ reqs[i].next = 0 /\ reqs[i].nextError = 0
               /\ \/ reqs[i].handled = 1 /\ reqs[i].status # 429
                  \/ reqs[i].handled = 0 /\ reqs[i].status = 429

\* C13: the remaining value reported for a request is max(0, limit - count)
\* for the count its increment returned: limit - count while count <= limit,
\* 0 for every denied request, never negative.
RemainingQuota ==
    \A i \in 1..Len(reqs) :
        Done(i) =>
            LET quota == IF reqs[i].count <= cfg.limit THEN cfg.limit - reqs[i].count ELSE 0
            IN  /\ reqs[i].remaining >= 0
                /\ reqs[i].remaining = quota
                /\ reqs[i].xRemaining = NumberToString(quota)

\* C13 witness: with limit 2, three requests on one key have reported the
\* remaining values 1, 0, 0.
RemainingQuotaWitness ==
    /\ cfg.limit = 2
    /\ Len(reqs) = 3
    /\ \A i \in 1..3 : Done(i) /\ reqs[i].key = reqs[1].key /\ reqs[i].count = i
    /\ reqs[1].xRemaining = <<"1">> /\ reqs[2].xRemaining = <<"0">>
    /\ reqs[3].xRemaining = <<"0">> /\ reqs[3].remaining = 0

\* The least integer >= ms / 1000.
CeilingOfSeconds(ms) == CHOOSE n \in -MaxTime..MaxTime : 1000 * (n - 1) < ms /\ ms <= 1000 * n

\* C14: a denied request carries retryAfter = ceil((resetAt - now) / 1000),
\* and this is > 0 at every time a request can be denied.
RetryHint ==
    [][(ResumeRequest /\ ~Head(mtq).rejected /\ Head(mtq).count > cfg.limit)
          => /\ reqs'[Head(mtq).id].retryAfter = CeilingOfSeconds(Head(mtq).resetAt - now)
             /\ reqs'[Head(mtq).id].retryAfter > 0]_vars

\* C15: the first request of a key after its window has elapsed counts 1 in
\* a new window and, with limit >= 1, proceeds; requests made during a
\* window, denied or not, leave the end of the window where it was.
BlockEnds ==
    [][/\ \A req \in Requests :
             Arrive(req) =>
                 LET w == WinOf(RequestKey(req))
                 IN  /\ (~w.open \/ now > w.end)
                        => ret'.count = 1 /\ ret'.resetAt = now + cfg.window
                     /\ (w.open /\ now <= w.end)
                        => /\ ret'.resetAt = w.end
                           /\ rateLimits'[RequestKey(req)].resetAt = w.end
       /\ (ResumeRequest /\ ~Head(mtq).rejected /\ Head(mtq).count = 1 /\ cfg.limit >= 1)
             => /\ reqs'[Head(mtq).id].next = 1
                /\ reqs'[Head(mtq).id].status # 429
                /\ reqs'[Head(mtq).id].handled = 0]_vars

\* C15 witness: a key was denied a request, and its first request after the
\* window had elapsed has proceeded with count 1 in a later window.
BlockEndsWitness ==
    \E i, j \in 1..Len(reqs) :
        /\ i < j /\ Done(i) /\ Done(j)
        /\ reqs[i].key = reqs[j].key
        /\ reqs[i].count > cfg.limit /\ reqs[i].next = 0
        /\ reqs[j].count = 1 /\ reqs[j].next = 1
        /\ reqs[j].resetAt > reqs[i].resetAt

(***************************************************************************)
(* SpecFail: the middleware with a store whose increment may fail.         *)
(***************************************************************************)
RequestsFail ==
    {Request("GET", <<"/users">>, <<"c1">>), Request("GET", <<"/users">>, <<"c2">>)}

StoreFailures == {"threw", "rejected"}

NextFail ==
    \/ \E req \in RequestsFail : Arrive(req)
    \/ \E req \in RequestsFail, how \in StoreFailures : ArriveStoreFails(req, how)
    \/ ResumeRequest
    \/ Tick

SpecFail == InitRate /\ [][NextFail]_vars

\* C11: a request whose store.increment threw or rejected proceeds: next is
\* called exactly once and without an error, there is no 429 and no call of
\* onLimitReached, and the middleware's promise resolves.
FailOpen ==
    \A i \in 1..Len(reqs) :
        (Done(i) /\ reqs[i].store \in StoreFailures)
            => /\ reqs[i].next = 1 /\ reqs[i].nextError = 0
               /\ reqs[i].status # 429 /\ reqs[i].handled = 0
               /\ reqs[i].settled = "resolved"

\* C11 witness: a key is over its limit (a request was answered 429), and a
\* later request of that key whose increment failed has proceeded.
FailOpenWitness ==
    \E i, j \in 1..Len(reqs) :
        /\ i < j /\ Done(i) /\ Done(j)
        /\ reqs[i].key = reqs[j].key
        /\ reqs[i].status = 429
        /\ reqs[j].store \in StoreFailures /\ reqs[j].next = 1

(***************************************************************************)
(* Spec: one caller uses a size-bounded MemoryStore, awaiting every call.  *)
(***************************************************************************)
KeysSize == {EmptyKey, <<"a">>, <<"b">>, <<"c">>}

Init ==
    /\ InitStore
    /\ maxSize \in {1, 2}
    /\ cfg = PlainConfig(1, 1)

Next ==
    \/ Idle /\ \E k \in KeysSize : Get(k)
    \/ Idle /\ \E k \in KeysSize, tags \in SUBSET {"x"} :
          Set(k, StoreValue("v1", tags), Undefined)
    \/ ResumeSet
    \/ Idle /\ \E k \in KeysSize : Delete(k)
    \/ Idle /\ InvalidateByTag("x")
    \/ Idle /\ ClearAll
    \/ Idle /\ \E p \in Patterns : ClearPattern(p)
    \/ ResumeClear
    \/ Idle /\ Increment(<<"a">>, 1)

Spec == Init /\ [][Next]_vars

\* C7: with maxSize = M >= 1, after every completed call of a sequential
\* caller the cache holds at most M entries.
SizeBound == (Idle /\ maxSize >= 1) => Len(cache) <= maxSize

SetCallOf(k) == \E tags \in SUBSET {"x"} : Set(k, StoreValue("v1", tags), Undefined)

\* C8: whenever set evicts, the victim is the key that entered the cache
\* first among those present; and with maxSize = 2, a set of a third key into
\* a store holding k1 and k2 (entered in this order, read or not) evicts k1
\* and leaves exactly k2 and the third key.
InsertionOrderEviction ==
    [][/\ (ret'.op = "evict" /\ mtq' # mtq) => ret'.key = Head(order)
       /\ \A k \in KeysSize :
             (Idle /\ maxSize = 2 /\ Len(order) = 2 /\ ~CacheHas(cache, k) /\ SetCallOf(k))
                 => (ret'.op = "evict" /\ CacheKeys(cache') = {order[2]})
       /\ ResumeSet => CacheKeys(cache') = CacheKeys(cache) \cup {Head(mtq).key}]_vars

\* C16: clear() leaves the value map, the counter map and the tag index
\* empty; a get that follows returns absent for every key, and an increment
\* that follows returns count 1.
ClearEverything ==
    [][/\ ClearAll
             => /\ cache' = <<>> /\ Len(cache') = 0
                /\ DOMAIN rateLimits' = {}
                /\ DOMAIN tagIndex' = {}
       /\ \A k \in KeysSize :
             (ret.op = "clear" /\ ret.key = <<>> /\ Get(k)) => ret'.value = NoValue
       /\ (ret.op = "clear" /\ ret.key = <<>> /\ Increment(<<"a">>, 1))
             => ret'.count = 1]_vars

\* C16 witness: clear() has completed on a store that held two cache
\* entries, a counter and a tag.
ClearEverythingWitness ==
    /\ ret.op = "clear" /\ ret.key = <<>>
    /\ ret.dropped[1] >= 2 /\ ret.dropped[2] >= 1 /\ ret.dropped[3] >= 1
    /\ cache = <<>> /\ rateLimits = <<>> /\ tagIndex = <<>>

\* C28: a single set call removes at most one entry other than the one it
\* writes.
AtMostOneVictim ==
    [][/\ \A k \in KeysSize :
             SetCallOf(k)
                 => Cardinality((CacheKeys(cache) \ CacheKeys(cache')) \ {k}) <= 1
       /\ ResumeSet => CacheKeys(cache) \subseteq CacheKeys(cache')]_vars

\* C28 witness: a set into a full store of two entries has evicted one of
\* them and kept the other; its write is still to come.
AtMostOneVictimWitness ==
    /\ ret.op = "evict" /\ mtq # <<>> /\ Head(mtq).kind = "set"
    /\ maxSize = 2 /\ Len(cache) = 1
    /\ ~CacheHas(cache, ret.key)

\* C29: a set on a key that is already present in a full store evicts no
\* other entry.
OverwriteNoEviction ==
    [][\A k \in KeysSize :
          (/\ Idle /\ maxSize >= 1 /\ Len(cache) >= maxSize
           /\ CacheHas(cache, k)
           /\ SetCallOf(k))
              => CacheKeys(cache) \ {k} \subseteq CacheKeys(cache')]_vars

\* C30: set, evicting or not, never creates, changes or removes a
\* rate-limit counter.
EvictionKeepsCounters ==
    [][((\E k \in KeysSize : SetCallOf(k)) \/ ResumeSet)
          => rateLimits' = rateLimits]_vars

(***************************************************************************)
(* SpecClear: clear(pattern) on an unbounded store whose keys include one  *)
(* with a line terminator; one caller, awaiting every call.                *)
(***************************************************************************)
KeysClear == {<<"user:", "1">>, <<"user:", "\n">>, <<"post:", "1">>}

CounterKeysClear == {<<"user:", "1">>, <<"post:", "1">>}

PatternsClear == {<<"user:", "*">>, <<"*">>, <<"post:", "1">>, <<"*", "1">>}

InitClear ==
    /\ InitStore
    /\ maxSize = Undefined
    /\ cfg = PlainConfig(1, 1)

NextClear ==
    \/ Idle /\ \E k \in KeysClear, tags \in SUBSET {"x"} :
          Set(k, StoreValue("v1", tags), Undefined)
    \/ Idle /\ \E k \in CounterKeysClear : Increment(k, 1)
    \/ Idle /\ \E pattern \in PatternsClear : ClearPattern(pattern)
    \/ ResumeClear

SpecClear == InitClear /\ [][NextClear]_vars

\* The glob of the specification: '*' stands for any sequence of
\* characters, the empty one included; every other character for itself.
RECURSIVE GlobMatch(_, _)
GlobMatch(key, pattern) ==
    IF pattern = <<>> THEN key = <<>>
    ELSE IF Head(pattern) = "*"
    THEN \E n \in 0..Len(key) : GlobMatch(SubSeq(key, n + 1, Len(key)), Tail(pattern))
    ELSE key # <<>> /\ Head(key) = Head(pattern) /\ GlobMatch(Tail(key), Tail(pattern))

\* C17: every step of clear(pattern) leaves the cache entries and the
\* counters whose key does not match as they are, and when clear(pattern)
\* completes no cache entry and no counter with a matching key is left and
\* no tag of the index holds a key without cache entry.
ClearExact ==
    [][\A pattern \in PatternsClear :
          (ClearPattern(pattern) \/ (ResumeClear /\ Head(mtq).key = pattern))
              => /\ SelectSeq(cache', LAMBDA e : ~GlobMatch(e.key, pattern))
                        = SelectSeq(cache, LAMBDA e : ~GlobMatch(e.key, pattern))
                 /\ \A k \in DOMAIN rateLimits :
                        ~GlobMatch(k, pattern)
                            => k \in DOMAIN rateLimits' /\ rateLimits'[k] = rateLimits[k]
                 /\ ret'.op = "clear"
                        => /\ \A k \in CacheKeys(cache') : ~GlobMatch(k, pattern)
                           /\ \A k \in DOMAIN rateLimits' : ~GlobMatch(k, pattern)
                           /\ \A t \in DOMAIN tagIndex' :
                                 tagIndex'[t] \subseteq CacheKeys(cache')]_vars

\* C18: delete(k) of a key the store does not hold changes nothing; a get(k)
\* that follows delete(k) returns absent; a second delete(k) leaves the
\* state the first one left.
DeleteIdempotent ==
    [][\A k \in KeysSize :
          /\ (Delete(k) /\ ~CacheHas(cache, k) /\ k \notin DOMAIN rateLimits)
                => UNCHANGED <<cache, rateLimits, tagIndex>>
          /\ Delete(k) => ~CacheHas(cache', k)
          /\ (ret.op = "delete" /\ ret.key = k /\ Get(k))
                => ret'.value = NoValue /\ UNCHANGED <<cache, rateLimits, tagIndex>>
          /\ (ret.op = "delete" /\ ret.key = k /\ Delete(k))
                => UNCHANGED <<cache, rateLimits, tagIndex>>]_vars

\* C18 witness: a delete of a key the store did not hold has completed on a
\* store that holds an entry, a tag and a counter.
DeleteIdempotentWitness ==
    /\ ret.op = "delete" /\ ret.dropped = <<0, 0, 0>>
    /\ cache # <<>> /\ DOMAIN tagIndex # {} /\ DOMAIN rateLimits # {}

(***************************************************************************)
(* SpecDuration: parseDuration is called with numbers and with strings of  *)
(* at most MaxLen characters.                                              *)
(***************************************************************************)
DurationChars == {"0", "1", "5", "s", "m", "h", "d", ".", "x"}

StringsUpTo(n) == UNION {[1..len -> DurationChars] : len \in 0..n}

DurationInputs ==
    {DurationNumber(n) : n \in 0..MaxNumber}
        \cup {DurationString(str) : str \in StringsUpTo(MaxLen)}

\* The call parseDuration(input): ret holds the input before the call, and
\* after it what the caller saw, the value returned or the error thrown.
ParseDurationCall ==
    /\ ret.op = "input"
    /\ ret' = [op |-> "parseDuration", input |-> ret.input,
               result |-> ParseDuration(ret.input)]
    /\ UNCHANGED <<cache, rateLimits, tagIndex, cleanupInterval, maxSize, now, mtq, order,
                   win, cfg, chainVars, reqs>>

InitDuration ==
    /\ cache = <<>> /\ rateLimits = <<>> /\ tagIndex = <<>>
    /\ cleanupInterval = TRUE /\ maxSize = Undefined
    /\ now = 1 /\ mtq = <<>> /\ order = <<>> /\ win = <<>> /\ reqs = <<>>
    /\ cfg = PlainConfig(1, 1)
    /\ NoChains
    /\ ret \in {[op |-> "input", input |-> input, result |-> Threw] :
                    input \in DurationInputs}

NextDuration == ParseDurationCall

SpecDuration == InitDuration /\ [][NextDuration]_vars

DecimalDigit == ("0" :> 0) @@ ("1" :> 1) @@ ("2" :> 2) @@ ("3" :> 3) @@ ("4" :> 4)
                    @@ ("5" :> 5) @@ ("6" :> 6) @@ ("7" :> 7) @@ ("8" :> 8) @@ ("9" :> 9)

\* The number that the decimal digits of str denote, read from the left.
RECURSIVE Decimal(_, _)
Decimal(str, acc) ==
    IF str = <<>> THEN acc ELSE Decimal(Tail(str), 10 * acc + DecimalDigit[Head(str)])

\* The seconds of a unit: its milliseconds are 1000, 60000, 3600000, 86400000.
Multiplier == ("s" :> 1) @@ ("m" :> 60) @@ ("h" :> 3600) @@ ("d" :> 86400)

\* One or more decimal digits followed by exactly one unit.
WellFormedDuration(str) ==
    /\ Len(str) >= 2
    /\ str[Len(str)] \in DOMAIN Multiplier
    /\ \A i \in 1..(Len(str) - 1) : str[i] \in DOMAIN DecimalDigit

\* C20: parseDuration returns a number unchanged; for digits n followed by
\* one unit it returns n times the unit's milliseconds (1000 times n times
\* the unit's seconds); for every other string it throws.
ParseDurationContract ==
    ret.op = "parseDuration" =>
        IF ret.input.type = "number"
        THEN ret.result.ok /\ WideValue(ret.result.ms) = ret.input.n
        ELSE LET str == ret.input.s
             IN  IF WellFormedDuration(str)
                 THEN /\ ret.result.ok
                      /\ ret.result.ms.r = 0
                      /\ ret.result.ms.k = Decimal(SubSeq(str, 1, Len(str) - 1), 0)
                                               * Multiplier[str[Len(str)]]
                 ELSE ~ret.result.ok

\* C20 witness: parseDuration('15m') has returned 900000.
ParseDurationWitness ==
    /\ ret.op = "parseDuration"
    /\ ret.input = DurationString(<<"1", "5", "m">>)
    /\ ret.result.ok /\ WideValue(ret.result.ms) = 900000

(***************************************************************************)
(* createValidationMiddleware                                              *)
(***************************************************************************)
\* The parts of a request that can be validated, in the order of the code.
Locations == <<"body", "query", "params">>

\* req.body, req.query, req.params: well-formed, ill-formed, or undefined.
Absent == "undefined"
Inputs == {"good", "bad", Absent}

\* schemas.body, schemas.query, schemas.params: no schema, or a Zod schema
\* that accepts only "good", one that also turns "bad" into "coerced", or
\* one that accepts "good" and undefined.
NoSchema == "none"
Schemas == {NoSchema, "strict", "coerce", "optional"}

\* schema.safeParse(value) for the three schemas.
SafeParse(schema, value) ==
    CASE schema = "strict" ->
            IF value = "good"
            THEN [success |-> TRUE, data |-> "good"]
            ELSE [success |-> FALSE, issues |-> <<"invalid_type">>]
      [] schema = "coerce" ->
            IF value = Absent
            THEN [success |-> FALSE, issues |-> <<"invalid_type">>]
            ELSE [success |-> TRUE, data |-> IF value = "bad" THEN "coerced" ELSE value]
      [] schema = "optional" ->
            IF value = "bad"
            THEN [success |-> FALSE, issues |-> <<"invalid_type", "too_small">>]
            ELSE [success |-> TRUE, data |-> value]

\* runValidation: { success: true } has no data, a failure has issues.
RunValidation(schema, value) ==
    IF schema = NoSchema
    THEN [success |-> TRUE]
    ELSE SafeParse(schema, value)

\* Mutant of Checked: nothing is checked once an error has been found.
CheckedUntilFirstError(acc, schemas, location) ==
    LET result == RunValidation(schemas[location], acc.req[location])
    IN  IF acc.errors # <<>>
        THEN acc
        ELSE IF ~result.success /\ "issues" \in DOMAIN result
        THEN [acc EXCEPT !.errors = Append(@, [location |-> location,
                                               issues |-> result.issues])]
        ELSE IF "data" \in DOMAIN result /\ result.data # Absent
        THEN [acc EXCEPT !.req[location] = result.data]
        ELSE acc

\* Lines 16-22, 24-29, 31-36: one location is validated.
Checked(acc, schemas, location) ==
    LET result == RunValidation(schemas[location], acc.req[location])
    IN  IF ~result.success /\ "issues" \in DOMAIN result
        THEN [acc EXCEPT !.errors = Append(@, [location |-> location,
                                               issues |-> result.issues])]
        ELSE IF "data" \in DOMAIN result /\ result.data # Absent
        THEN [acc EXCEPT !.req[location] = result.data]
        ELSE acc

\* The middleware on one request: the errors collected, the request as the
\* middleware leaves it, the response (status 0: none sent) and the calls
\* of next.
ValidationMiddleware(schemas, req) ==
    LET afterBody   == Checked([errors |-> <<>>, req |-> req], schemas, "body")
        afterQuery  == Checked(afterBody, schemas, "query")
        afterParams == Checked(afterQuery, schemas, "params")
    IN  IF Len(afterParams.errors) > 0
        THEN [req |-> afterParams.req, status |-> 400,
              json |-> afterParams.errors, next |-> 0]
        ELSE [req |-> afterParams.req, status |-> 0, json |-> <<>>, next |-> 1]

(***************************************************************************)
(* SpecValidation: the validation middleware on one request, for every     *)
(* choice of the three schemas and the three inputs.                       *)
(***************************************************************************)
LocationSet == {Locations[i] : i \in 1..Len(Locations)}

\* The call of the middleware: ret holds the schemas and the request before
\* the call, and after it also what the middleware did.
ValidationCall ==
    /\ ret.op = "request"
    /\ ret' = [op |-> "validated", schemas |-> ret.schemas, req |-> ret.req,
               result |-> ValidationMiddleware(ret.schemas, ret.req)]
    /\ UNCHANGED <<cache, rateLimits, tagIndex, cleanupInterval, maxSize, now, mtq, order,
                   win, cfg, chainVars, reqs>>

InitValidation ==
    /\ cache = <<>> /\ rateLimits = <<>> /\ tagIndex = <<>>
    /\ cleanupInterval = TRUE /\ maxSize = Undefined
    /\ now = 1 /\ mtq = <<>> /\ order = <<>> /\ win = <<>> /\ reqs = <<>>
    /\ cfg = PlainConfig(1, 1)
    /\ NoChains
    /\ ret \in {[op |-> "request", schemas |-> schemas, req |-> req,
                  result |-> [req |-> req, status |-> 0, json |-> <<>>, next |-> 0]] :
                    schemas \in [LocationSet -> Schemas], req \in [LocationSet -> Inputs]}

NextValidation == ValidationCall

SpecValidation == InitValidation /\ [][NextValidation]_vars

\* Whether the schema configured for a location rejects the input there.
Rejects(schemas, req, location) ==
    /\ schemas[location] # NoSchema
    /\ ~SafeParse(schemas[location], req[location]).success

\* The locations, in the order body, query, params, whose schema rejects.
Failing(schemas, req) ==
    SelectSeq(Locations, LAMBDA location : Rejects(schemas, req, location))

\* C21: the validation middleware calls next() iff no configured schema
\* rejects its input; otherwise it answers 400 with exactly one error item
\* per failing location, in the order body, query, params, all three having
\* been checked, and does not call next.
ValidationContract ==
    ret.op = "validated" =>
        LET failing == Failing(ret.schemas, ret.req)
        IN  /\ ret.result.next = 1 <=> failing = <<>>
            /\ ret.result.next \in {0, 1}
            /\ failing = <<>> => ret.result.status = 0
            /\ failing # <<>> =>
                  /\ ret.result.status = 400
                  /\ Len(ret.result.json) = Len(failing)
                  /\ \A i \in 1..Len(failing) :
                        /\ ret.result.json[i].location = failing[i]
                        /\ ret.result.json[i].issues =
                              SafeParse(ret.schemas[failing[i]],
                                        ret.req[failing[i]]).issues

\* C21 witness: body and params are rejected, query is accepted; the answer
\* is 400 with the body item before the params item.
ValidationWitness ==
    /\ ret.op = "validated"
    /\ Failing(ret.schemas, ret.req) = <<"body", "params">>
    /\ ret.schemas["query"] # NoSchema
    /\ ret.result.status = 400 /\ ret.result.next = 0
    /\ Len(ret.result.json) = 2

(***************************************************************************)
(* ChainBuilder                                                            *)
(***************************************************************************)
MaxCalls == 3
MaxBuilds == 1

Builders == {"main", "other"}

\* What a handler can throw or reject with, and the absence of an error.
NoError == [name |-> "none", status |-> Undefined]
Errors == {[name |-> "Error", status |-> Undefined],
           [name |-> "NotFound", status |-> 404]}

\* The handlers a user passes in, by what they do when Express calls them:
\* call next(), send a response, throw, or return a promise that rejects;
\* an error handler of the user's; no handler; a set of schemas.
Plain(does) == [does |-> does, error |-> NoError]
Middlewares ==
    {Plain("next"), Plain("responds")}
        \cup {[does |-> does, error |-> e] : does \in {"throws", "rejects"}, e \in Errors}
CustomHandler == Plain("customHandler")
NoHandler == Plain("undefined")
SomeSchemas == Plain("schemas")

\* The handlers the package creates.
CreateValidationMiddleware(schemas) == [kind |-> "validation", handler |-> schemas]

WrapAsync(handler) == [kind |-> "wrapAsync", handler |-> handler]

CreateErrorBoundaryMiddleware(handler) ==
    IF handler # NoHandler
    THEN [kind |-> "errorHandler", handler |-> handler]
    ELSE [kind |-> "errorHandler", handler |-> Plain("defaultHandler")]

\* Array.prototype.push on the array with reference ref.
Push(a, ref, items) == [a EXCEPT ![ref] = @ \o items]

\* Mutant of BuildArray: build() hands out this.middlewares itself.
BuildArrayShared(a, ref) == [arrays |-> a, ref |-> ref]

\* [...this.middlewares]: a new array with the same elements.
BuildArray(a, ref) == [arrays |-> Append(a, a[ref]), ref |-> Len(a) + 1]

Call(method, handler, other, at) ==
    [method |-> method, handler |-> handler, other |-> other, at |-> at]

CanChain == Len(calls["main"]) + Len(calls["other"]) < MaxCalls

Logged(b, call) ==
    /\ calls' = [calls EXCEPT ![b] = Append(@, call)]
    /\ UNCHANGED <<storeVars, now, mtq, ret, order, win, mwVars, middlewares, built, run>>

Validate(b, schemas) ==
    /\ CanChain
    /\ arrays' = Push(arrays, middlewares[b], <<CreateValidationMiddleware(schemas)>>)
    /\ Logged(b, Call("validate", schemas, b, 0))

Use(b, middleware) ==
    /\ CanChain
    /\ arrays' = Push(arrays, middlewares[b], <<WrapAsync(middleware)>>)
    /\ Logged(b, Call("use", middleware, b, 0))

\* this.middlewares.push(...builder.build()): the array that build returns
\* is spread into the call and not kept.
Compose(b, builder) ==
    /\ CanChain
    /\ LET r == BuildArray(arrays, middlewares[builder])
       IN  arrays' = Push(arrays, middlewares[b], r.arrays[r.ref])
    /\ Logged(b, Call("compose", NoHandler, builder, Len(calls[builder])))

ErrorBoundary(b, handler) ==
    /\ CanChain
    /\ arrays' = Push(arrays, middlewares[b], <<CreateErrorBoundaryMiddleware(handler)>>)
    /\ Logged(b, Call("errorBoundary", handler, b, 0))

\* build(), called by user code that keeps the array it gets.
Build(b) ==
    /\ Len(built) < MaxBuilds
    /\ LET r == BuildArray(arrays, middlewares[b])
       IN  /\ arrays' = r.arrays
           /\ built' = Append(built, [builder |-> b, ref |-> r.ref,
                                      at |-> Len(calls[b]), pushed |-> <<>>])
    /\ UNCHANGED <<storeVars, now, mtq, ret, order, win, mwVars, middlewares, calls, run>>

\* User code appends a handler of its own to an array that build returned.
OwnHandler == [kind |-> "own", handler |-> Plain("next")]

PushBuilt(i) ==
    /\ built[i].pushed = <<>>
    /\ arrays' = Push(arrays, built[i].ref, <<OwnHandler>>)
    /\ built' = [built EXCEPT ![i].pushed = <<OwnHandler>>]
    /\ UNCHANGED <<storeVars, now, mtq, ret, order, win, mwVars, middlewares, calls, run>>

(***************************************************************************)
(* SpecChain: two builders made by chain(); user code calls their methods  *)
(* in any order, keeps the arrays that build returns and appends to them.  *)
(***************************************************************************)
InitChain ==
    /\ cache = <<>> /\ rateLimits = <<>> /\ tagIndex = <<>>
    /\ cleanupInterval = TRUE /\ maxSize = Undefined
    /\ now = 1 /\ mtq = <<>> /\ order = <<>> /\ win = <<>> /\ reqs = <<>>
    /\ cfg = PlainConfig(1, 1)
    /\ ret = NoEvent
    /\ arrays = <<<<>>, <<>>>>
    /\ middlewares = [b \in Builders |-> IF b = "main" THEN 1 ELSE 2]
    /\ built = <<>>
    /\ calls = [b \in Builders |-> <<>>]
    /\ run = NoRun

NextChain ==
    \/ \E b \in Builders : Validate(b, SomeSchemas)
    \/ \E b \in Builders : Use(b, Plain("next"))
    \/ \E b \in Builders, builder \in Builders : Compose(b, builder)
    \/ \E b \in Builders, handler \in {NoHandler, CustomHandler} : ErrorBoundary(b, handler)
    \/ \E b \in Builders : Build(b)
    \/ \E i \in 1..Len(built) : PushBuilt(i)

SpecChain == InitChain /\ [][NextChain]_vars

\* The handler that one call of validate, use or errorBoundary adds.
HandlerOfCall(call) ==
    CASE call.method = "validate" -> [kind |-> "validation", handler |-> call.handler]
      [] call.method = "use" -> [kind |-> "wrapAsync", handler |-> call.handler]
      [] call.method = "errorBoundary" ->
            [kind |-> "errorHandler",
             handler |-> IF call.handler = NoHandler
                         THEN Plain("defaultHandler") ELSE call.handler]

\* The handlers of the first n calls on builder b, in call order; a call of
\* compose stands for the handlers the other builder had at that moment.
RECURSIVE InCallOrder(_, _, _)
InCallOrder(log, b, n) ==
    IF n = 0
    THEN <<>>
    ELSE LET call == log[b][n]
         IN  InCallOrder(log, b, n - 1)
                 \o (IF call.method = "compose"
                     THEN InCallOrder(log, call.other, call.at)
                     ELSE <<HandlerOfCall(call)>>)

\* C23: the array that build() returns holds the handlers in the order of
\* the calls of validate, use, compose and errorBoundary, compose standing
\* for the other builder's handlers at the moment of the call; later calls
\* on the builder do not change a returned array, and changing a returned
\* array does not change the builder.
ChainOrder ==
    /\ \A b \in DOMAIN middlewares :
          arrays[middlewares[b]] = InCallOrder(calls, b, Len(calls[b]))
    /\ \A i \in 1..Len(built) :
          arrays[built[i].ref]
              = InCallOrder(calls, built[i].builder, built[i].at) \o built[i].pushed

\* C23 witness: other got a validation handler, main composed other and was
\* built; then main got an error boundary and the caller appended a handler
\* to the array it had been given.
ChainOrderWitness ==
    \E i \in 1..Len(built) :
        /\ built[i].builder = "main" /\ built[i].at = 1
        /\ built[i].pushed # <<>>
        /\ Len(calls["main"]) = 2
        /\ calls["main"][1].method = "compose" /\ calls["main"][1].other = "other"
        /\ calls["main"][2].method = "errorBoundary"
        /\ arrays[built[i].ref] = <<CreateValidationMiddleware(SomeSchemas), OwnHandler>>
        /\ arrays[middlewares["main"]]
              = <<CreateValidationMiddleware(SomeSchemas),
                  CreateErrorBoundaryMiddleware(NoHandler)>>

(***************************************************************************)
(* A request passing through a built chain.  Express calls the handlers of *)
(* the array in order: after next() the following handler that is not an   *)
(* error handler, after next(error) the following error handler.           *)
(***************************************************************************)
\* Mutant of Wrapped: a rejected promise is not listened to.
WrappedSyncOnly(handler) ==
    CASE handler.does = "throws" -> [next |-> "now", error |-> handler.error]
      [] handler.does = "rejects" -> [next |-> "never", error |-> NoError]
      [] handler.does = "next" -> [next |-> "now", error |-> NoError]
      [] handler.does = "responds" -> [next |-> "never", error |-> NoError]

\* What the function that wrapAsync returns does with next when called: a
\* throw of the handler is caught and passed to next at once, a rejection
\* is passed to next by the catch callback, in a microtask; a handler that
\* calls next() or sends the response is left to do so.
Wrapped(handler) ==
    CASE handler.does = "throws" -> [next |-> "now", error |-> handler.error]
      [] handler.does = "rejects" -> [next |-> "microtask", error |-> handler.error]
      [] handler.does = "next" -> [next |-> "now", error |-> NoError]
      [] handler.does = "responds" -> [next |-> "never", error |-> NoError]

\* The status the default error boundary answers with: err.status ?? 500.
DefaultStatus(err) == IF err.status # Undefined THEN err.status ELSE 500

\* The response of an error handler: the default one of the package, or the
\* user's own, which answers in its own way.
ErrorResponse(handler, err) ==
    IF handler.does = "defaultHandler"
    THEN [status |-> DefaultStatus(err), body |-> "Internal Server Error"]
    ELSE [status |-> DefaultStatus(err), body |-> "custom"]

\* next(error) called by the handler at position idx.
NextCalled(r, error) ==
    [r EXCEPT !.phase = "dispatch",
              !.err = IF error # NoError THEN error ELSE r.err,
              !.idx = r.idx + 1,
              !.nexts = Append(@, [from |-> r.idx, error |-> error])]

\* A request arrives at the route that the array built from main is
\* mounted on.
StartRun ==
    /\ run = NoRun
    /\ Len(arrays[middlewares["main"]]) >= 1
    /\ LET r == BuildArray(arrays, middlewares["main"])
       IN  /\ arrays' = r.arrays
           /\ run' = [phase |-> "dispatch", ref |-> r.ref, idx |-> 1, err |-> NoError,
                       status |-> 0, body |-> "", by |-> 0, invoked |-> {},
                       nexts |-> <<>>]
    /\ UNCHANGED <<storeVars, now, mtq, ret, order, win, mwVars, middlewares, built, calls>>

\* Express takes the handler at run.idx: it skips it when it is an error
\* handler and there is no error, or the reverse, and calls it otherwise.
Dispatch ==
    /\ run.phase = "dispatch"
    /\ mtq = <<>>
    /\ IF run.idx > Len(arrays[run.ref])
       THEN /\ run' = [run EXCEPT !.phase = "left"]
            /\ UNCHANGED mtq
       ELSE LET h == arrays[run.ref][run.idx]
                called == [run EXCEPT !.invoked = @ \cup {run.idx}]
            IN  IF (h.kind = "errorHandler") # (run.err # NoError)
                THEN /\ run' = [run EXCEPT !.idx = @ + 1]
                     /\ UNCHANGED mtq
                ELSE IF h.kind = "errorHandler"
                THEN /\ run' = [called EXCEPT
                                    !.phase = "responded",
                                    !.status = ErrorResponse(h.handler, run.err).status,
                                    !.body = ErrorResponse(h.handler, run.err).body,
                                    !.by = run.idx]
                     /\ UNCHANGED mtq
                ELSE LET w == Wrapped(h.handler)
                     IN  CASE w.next = "now" ->
                                /\ run' = NextCalled(called, w.error)
                                /\ UNCHANGED mtq
                           [] w.next = "microtask" ->
                                /\ run' = [called EXCEPT !.phase = "pending"]
                                /\ mtq' = Append(mtq, [kind |-> "catch",
                                                       error |-> w.error])
                           [] w.next = "never" ->
                                /\ run' = IF h.handler.does = "responds"
                                          THEN [called EXCEPT !.phase = "responded",
                                                              !.status = 200,
                                                              !.body = "ok",
                                                              !.by = run.idx]
                                          ELSE [called EXCEPT !.phase = "hung"]
                                /\ UNCHANGED mtq
    /\ UNCHANGED <<storeVars, now, ret, order, win, mwVars, arrays, middlewares, built,
                   calls>>

\* The catch callback of wrapAsync runs: next(error).
ResumeCatch ==
    /\ mtq # <<>>
    /\ Head(mtq).kind = "catch"
    /\ mtq' = Tail(mtq)
    /\ run' = NextCalled(run, Head(mtq).error)
    /\ UNCHANGED <<storeVars, now, ret, order, win, mwVars, arrays, middlewares, built,
                   calls>>

(***************************************************************************)
(* SpecErrors: a chain of up to MaxCalls handlers is put together with use *)
(* and errorBoundary, built, and a request passes through it.              *)
(***************************************************************************)
NextErrors ==
    \/ run = NoRun /\ \E m \in Middlewares : Use("main", m)
    \/ run = NoRun /\ \E handler \in {NoHandler, CustomHandler} :
          ErrorBoundary("main", handler)
    \/ StartRun
    \/ Dispatch
    \/ ResumeCatch

SpecErrors == InitChain /\ [][NextErrors]_vars

\* The handlers of the chain the request passes through.
RunChain == IF run = NoRun THEN <<>> ELSE arrays[run.ref]

\* Whether the handler at position i was added with use() and fails.
Fails(i) ==
    /\ RunChain[i].kind = "wrapAsync"
    /\ RunChain[i].handler.does \in {"throws", "rejects"}

\* The positions of the error handlers placed after position i.
BoundariesAfter(i) ==
    {j \in (i + 1)..Len(RunChain) : RunChain[j].kind = "errorHandler"}

\* C22: when a handler added with use() throws or returns a promise that
\* rejects, next is called once, with that error; and once the request has
\* been answered or has left the chain, the first error boundary placed
\* after the handler, if there is one, has answered it: the default
\* boundary with status err.status or 500 and the body Internal Server
\* Error.
ErrorsForwarded ==
    \A i \in 1..Len(RunChain) :
        (Fails(i) /\ i \in run.invoked /\ mtq = <<>>) =>
            LET error == RunChain[i].handler.error
            IN  /\ Cardinality({n \in 1..Len(run.nexts) : run.nexts[n].from = i}) = 1
                /\ \A n \in 1..Len(run.nexts) :
                      run.nexts[n].from = i => run.nexts[n].error = error
                /\ run.phase # "hung"
                /\ (run.phase \in {"responded", "left"} /\ BoundariesAfter(i) # {}) =>
                      LET j == CHOOSE j \in BoundariesAfter(i) :
                                  \A k \in BoundariesAfter(i) : j <= k
                      IN  /\ run.phase = "responded" /\ run.by = j
                          /\ RunChain[j].handler.does = "defaultHandler" =>
                                /\ run.status = (IF error.status # Undefined
                                                  THEN error.status ELSE 500)
                                /\ run.body = "Internal Server Error"

\* C22 witness: a handler whose promise rejected with an error without
\* status, followed by a handler that was skipped and by the default
\* boundary, which answered 500.
ErrorsForwardedWitness ==
    /\ run # NoRun /\ run.phase = "responded"
    /\ Len(RunChain) = 3
    /\ RunChain[1] = WrapAsync([does |-> "rejects",
                                error |-> [name |-> "Error", status |-> Undefined]])
    /\ RunChain[2] = WrapAsync(Plain("next"))
    /\ RunChain[3] = CreateErrorBoundaryMiddleware(NoHandler)
    /\ run.invoked = {1, 3}
    /\ run.status = 500 /\ run.body = "Internal Server Error"

(***************************************************************************)
(* SpecKeys: the store keys of two requests, for route paths and client    *)
(* keys that contain ':' (a route parameter, an IPv6 address).             *)
(***************************************************************************)
RoutesKeys == {<<"/users">>, <<"/users", "/", ":", "id">>, <<"/users", ":", "v">>,
               <<"/users", "/">>}

ClientsKeys == {<<"c1">>, <<":", ":", "1">>, <<"v", ":", "c1">>, <<"id", ":", "c1">>}

RequestsKeys == {Request("GET", route, ip) : route \in RoutesKeys, ip \in ClientsKeys}

\* The middleware computes the key of each of two requests (lines 88-90).
RateLimitKeyCall ==
    /\ ret.op = "requests"
    /\ ret' = [op |-> "keys", first |-> ret.first, second |-> ret.second,
               keys |-> <<RequestKey(ret.first), RequestKey(ret.second)>>]
    /\ UNCHANGED <<cache, rateLimits, tagIndex, cleanupInterval, maxSize, now, mtq, order,
                   win, cfg, chainVars, reqs>>

InitKeys ==
    /\ cache = <<>> /\ rateLimits = <<>> /\ tagIndex = <<>>
    /\ cleanupInterval = TRUE /\ maxSize = Undefined
    /\ now = 1 /\ mtq = <<>> /\ order = <<>> /\ win = <<>> /\ reqs = <<>>
    /\ cfg = PlainConfig(1, 1)
    /\ NoChains
    /\ ret \in {[op |-> "requests", first |-> first, second |-> second,
                  keys |-> <<NoKey, NoKey>>] :
                    first \in RequestsKeys, second \in RequestsKeys}

NextKeys == RateLimitKeyCall

SpecKeys == InitKeys /\ [][NextKeys]_vars

\* C40: two requests whose (route path, client key) pairs differ are counted
\* under different store keys.
NoKeyAliasing ==
    (/\ ret.op = "keys"
     /\ <<RoutePath(ret.first), DefaultRateLimitKey(ret.first)>>
            # <<RoutePath(ret.second), DefaultRateLimitKey(ret.second)>>)
        => ret.keys[1] # ret.keys[2]

(***************************************************************************)
(* SpecSkip: the middleware with skipFailedRequests, skipSuccessfulRequests *)
(* or both; the handlers behind it send their responses with res.send, at  *)
(* any later time or never.                                                *)
(***************************************************************************)
\* The statuses on either side of the line between success and failure.
Statuses == {399, 400}

InitSkip ==
    /\ InitStore
    /\ maxSize = Undefined
    /\ cfg \in {c \in [limit : {1}, window : {1}, skipFailedRequests : BOOLEAN,
                        skipSuccessfulRequests : BOOLEAN, onLimitReached : {"none"}] :
                    c.skipFailedRequests \/ c.skipSuccessfulRequests}

NextSkip ==
    \/ \E req \in RequestsFail : Arrive(req)
    \/ \E id \in 1..Len(reqs), statusCode \in Statuses : Send(id, statusCode)
    \/ CleanupExpired
    \/ Tick

SpecSkip == InitSkip /\ [][NextSkip]_vars

\* Whether a response with this status is left out of the count.
Skipped(statusCode) ==
    \/ cfg.skipFailedRequests /\ statusCode >= 400
    \/ cfg.skipSuccessfulRequests /\ statusCode < 400

\* The count of key k in the window running at time t, 0 if there is none.
CountedInWindow(rl, k, t) ==
    IF k \in DOMAIN rl /\ t <= rl[k].resetAt THEN rl[k].count ELSE 0

\* C37: with a skip rule the arrival of a request changes no counter; the
\* sending of its response adds exactly one to the counter of its key iff
\* the response is not skipped (skipFailedRequests: status >= 400 is not
\* counted, skipSuccessfulRequests: status < 400 is not counted) and changes
\* no other counter; a request whose response has not been sent is not
\* counted.
SkipCounting ==
    [][/\ \A req \in RequestsFail : Arrive(req) => rateLimits' = rateLimits
       /\ \A id \in 1..Len(reqs), statusCode \in Statuses :
             Send(id, statusCode) =>
                 IF Skipped(statusCode)
                 THEN rateLimits' = rateLimits /\ reqs'[id].counted = 0
                 ELSE /\ CountedInWindow(rateLimits', reqs[id].key, now)
                            = CountedInWindow(rateLimits, reqs[id].key, now) + 1
                      /\ reqs'[id].counted = 1
                      /\ \A k \in DOMAIN rateLimits \ {reqs[id].key} :
                            k \in DOMAIN rateLimits' /\ rateLimits'[k] = rateLimits[k]
       /\ \A i \in 1..Len(reqs') :
             reqs'[i].phase = "hooked" => reqs'[i].counted = 0]_vars

\* C37 witness: with skipFailedRequests alone, one request was answered 399
\* and counted, one was answered 400 and not counted, and one has not been
\* answered and is not counted.
SkipCountingWitness ==
    /\ cfg.skipFailedRequests /\ ~cfg.skipSuccessfulRequests
    /\ \E i, j, h \in 1..Len(reqs) :
          /\ reqs[i].status = 399 /\ reqs[i].counted = 1
          /\ reqs[j].status = 400 /\ reqs[j].counted = 0 /\ reqs[j].phase = "done"
          /\ reqs[h].phase = "hooked" /\ reqs[h].counted = 0
          /\ reqs[i].key = reqs[j].key /\ reqs[j].key = reqs[h].key
          /\ CountedInWindow(rateLimits, reqs[i].key, now) = 1

\* C38: with a skip rule, a request of a client whose counted requests in
\* the running window have reached the limit is denied, not passed on.
LimitWithSkip ==
    [][\A req \in RequestsFail :
          (/\ Arrive(req)
           /\ CountedInWindow(rateLimits, RequestKey(req), now) >= cfg.limit)
              => reqs'[Len(reqs')].next = 0]_vars

(***************************************************************************)
(* SpecSweep: the sweep timer among the operations of a caller that awaits *)
(* each call and opens one window per counter, on a store of at most two   *)
(* entries or of any size. The timer callback runs only when no            *)
(* continuation is pending, so it never runs inside a suspended set.       *)
(***************************************************************************)
KeysSweep == {<<"a">>, <<"b">>}

InitSweep ==
    /\ InitStore
    /\ maxSize \in {Undefined, 2}
    /\ cfg = PlainConfig(1, 1)

NextSweep ==
    \/ \E k \in KeysSweep : Get(k)
    \/ Idle /\ \E k \in KeysSweep, tags \in SUBSET {"x"}, ttl \in {Undefined, 1} :
          Set(k, StoreValue("v1", tags), ttl)
    \/ ResumeSet
    \/ Idle /\ \E k \in KeysSweep : Delete(k)
    \/ Idle /\ InvalidateByTag("x")
    \/ /\ Idle
       /\ <<"a">> \in DOMAIN rateLimits => now > rateLimits[<<"a">>].resetAt
       /\ Increment(<<"a">>, 1)
    \/ CleanupExpired
    \/ Tick

SpecSweep == InitSweep /\ [][NextSweep]_vars

\* What get(k) returns at time t from cache c.
Visible(c, k, t) ==
    IF CacheHas(c, k) /\ ~(CacheGet(c, k).expiresAt # Undefined /\ t > CacheGet(c, k).expiresAt)
    THEN CacheGet(c, k).value
    ELSE NoValue

\* The key a set would evict from cache c under maxSize m, NoKey if none.
Victim(c, m) ==
    IF NeedsEviction(c, m) /\ Len(c) > 0 /\ KeyTruthy(FirstKey(c))
    THEN FirstKey(c)
    ELSE NoKey

\* What get(j) returns right after a set of another key.
VisibleAfterSet(c, m, j, t) == IF Victim(c, m) = j THEN NoValue ELSE Visible(c, j, t)

\* The keys with a value to return that invalidateByTag(tag) would remove.
VisibleTagged(ti, c, tag, t) ==
    IF tag \in DOMAIN ti THEN {k \in ti[tag] : Visible(c, k, t) # NoValue} ELSE {}

\* C31: a sweep changes the result of no call that follows it: not what get
\* returns, not the count increment returns, not the values invalidateByTag
\* removes, and not what get returns after a set that follows the sweep (a
\* set in a size-bounded store evicts the same value with and without the
\* sweep).
SweepUnobservable ==
    [][CleanupExpired =>
          /\ \A k \in KeysSweep : Visible(cache', k, now) = Visible(cache, k, now)
          /\ \A k \in KeysSweep :
                CountedInWindow(rateLimits', k, now) = CountedInWindow(rateLimits, k, now)
          /\ VisibleTagged(tagIndex', cache', "x", now)
                = VisibleTagged(tagIndex, cache, "x", now)
          /\ \A j \in KeysSweep :
                VisibleAfterSet(cache', maxSize, j, now)
                    = VisibleAfterSet(cache, maxSize, j, now)]_vars

\* C33: a sweep removes a cache entry only if the expiration of the entry as
\* it is stored when the sweep runs has passed, and a counter only if its
\* window has elapsed; every other entry and counter stays as it is; the
\* keys removed leave the index set of each of their tags, and no other key
\* leaves an index set.
SweepSafety ==
    [][CleanupExpired =>
          /\ \A k \in KeysSweep :
                CacheHas(cache, k) =>
                    LET entry == CacheGet(cache, k)
                    IN  IF entry.expiresAt # Undefined /\ now > entry.expiresAt
                        THEN \A t \in entry.value.tags :
                                t \in DOMAIN tagIndex' => k \notin tagIndex'[t]
                        ELSE /\ CacheHas(cache', k) /\ CacheGet(cache', k) = entry
                             /\ \A t \in DOMAIN tagIndex :
                                   k \in tagIndex[t]
                                       => t \in DOMAIN tagIndex' /\ k \in tagIndex'[t]
          /\ CacheKeys(cache') \subseteq CacheKeys(cache)
          /\ \A k \in DOMAIN rateLimits :
                ~(now > rateLimits[k].resetAt)
                    => k \in DOMAIN rateLimits' /\ rateLimits'[k] = rateLimits[k]
          /\ DOMAIN rateLimits' \subseteq DOMAIN rateLimits]_vars

\* C33 witness: the last call was set(b) with a TTL of 1 and tag x, while a
\* was stored without a TTL under the same tag; only time and the sweep
\* have acted since, the TTL of b has passed, and b is gone from the cache
\* and from the index set of x while a is still in both.
SweepSafetyWitness ==
    /\ ret.op = "set" /\ ret.key = <<"b">> /\ ret.ttl = 1
    /\ ret.value = StoreValue("v1", {"x"})
    /\ now > ret.at + 1
    /\ CacheKeys(cache) = {<<"a">>}
    /\ CacheGet(cache, <<"a">>).expiresAt = Undefined
    /\ DOMAIN tagIndex = {"x"} /\ tagIndex["x"] = {<<"a">>}

(***************************************************************************)
(* SpecSweepLive: the timer of the constructor. setInterval keeps calling  *)
(* cleanupExpired until destroy clears it; the callback runs whenever the  *)
(* continuation queue has drained (strong fairness: callers may fill the   *)
(* queue again and again, but each time it drains), and a continuation in  *)
(* the queue always runs (weak fairness). Neither the callers nor the      *)
(* clock are obliged to do anything.                                       *)
(***************************************************************************)
NextSweepLive ==
    \/ Idle /\ \E k \in KeysSweep, ttl \in {Undefined, 1} : Set(k, StoreValue("v1", {}), ttl)
    \/ ResumeSet
    \/ /\ Idle
       /\ <<"a">> \in DOMAIN rateLimits => now > rateLimits[<<"a">>].resetAt
       /\ Increment(<<"a">>, 1)
    \/ CleanupExpired
    \/ Destroy
    \/ Tick

SpecSweepLive ==
    /\ InitSweep
    /\ [][NextSweepLive]_vars
    /\ WF_vars(ResumeSet)
    /\ SF_vars(CleanupExpired)

EntryDue(k) == CacheHas(cache, k) /\ IsExpired(CacheGet(cache, k).expiresAt, now)

CounterDue(k) == k \in DOMAIN rateLimits /\ WindowElapsed(rateLimits[k].resetAt, now)

\* C32: while the store is not destroyed, a cache entry whose expiration has
\* passed and a counter whose window has elapsed are eventually removed,
\* whether or not any caller touches their key again.
SweepLiveness ==
    /\ \A k \in KeysSweep : EntryDue(k) ~> (~cleanupInterval \/ ~EntryDue(k))
    /\ \A k \in KeysSweep : CounterDue(k) ~> (~cleanupInterval \/ ~CounterDue(k))

\* C32 witness: the last call was an increment that opened a window; only
\* time and the timer have acted since, the window has elapsed, and the
\* counter and every cache entry stored before it are gone from a store that
\* is not destroyed.
SweepLivenessWitness ==
    /\ ret.op = "increment" /\ ret.key = <<"a">> /\ ret.count = 1
    /\ now > ret.resetAt
    /\ cleanupInterval
    /\ rateLimits = <<>>
    /\ cache = <<>>
    /\ maxSize = Undefined

(***************************************************************************)
(* SpecOverwrite: two keys in an unbounded store, each written and then    *)
(* overwritten. Key a is first set to v1 with a TTL of 1 and overwritten   *)
(* by v2 without TTL; key b is first set to v1 without TTL and overwritten *)
(* by v2 with a TTL. An entry that holds v2 is therefore an overwrite.     *)
(***************************************************************************)
KeyTtlFirst == <<"a">>
KeyTtlLater == <<"b">>
KeysOverwrite == {KeyTtlFirst, KeyTtlLater}
TtlsOverwrite == {1, 2}
Old == StoreValue("v1", {})
New == StoreValue("v2", {})

Holds(c, k, v) == CacheHas(c, k) /\ CacheGet(c, k).value = v

FirstWrite(k) ==
    /\ ~CacheHas(cache, k)
    /\ Set(k, Old, IF k = KeyTtlFirst THEN 1 ELSE Undefined)

Overwrite(k, ttl) == Holds(cache, k, Old) /\ Set(k, New, ttl)

InitOverwrite ==
    /\ InitStore
    /\ maxSize = Undefined
    /\ cfg = PlainConfig(1, 1)

NextOverwrite ==
    \/ \E k \in KeysOverwrite : Get(k)
    \/ \E k \in KeysOverwrite : FirstWrite(k)
    \/ Overwrite(KeyTtlFirst, Undefined)
    \/ \E ttl \in TtlsOverwrite : Overwrite(KeyTtlLater, ttl)
    \/ CleanupExpired
    \/ Tick

SpecOverwrite == InitOverwrite /\ [][NextOverwrite]_vars

\* C39: an overwrite stores the expiration of the new set alone. The
\* overwrite without TTL of an entry that had one leaves an entry without
\* expiration instant, which time and sweeps leave in place and get returns
\* at every later time; the overwrite with TTL t2 at time T of an entry
\* that had none leaves an entry with expiration instant T + t2, which get
\* returns at every time before T + t2 and no longer returns at any time
\* after T + t2.
OverwriteReplacesExpiration ==
    [][/\ Overwrite(KeyTtlFirst, Undefined)
             => CacheGet(cache', KeyTtlFirst)
                    = [key |-> KeyTtlFirst, value |-> New, expiresAt |-> Undefined]
       /\ \A ttl \in TtlsOverwrite :
             Overwrite(KeyTtlLater, ttl)
                 => CacheGet(cache', KeyTtlLater)
                        = [key |-> KeyTtlLater, value |-> New, expiresAt |-> now + ttl]
       /\ Holds(cache, KeyTtlFirst, New)
             => /\ (Tick \/ CleanupExpired \/ Get(KeyTtlLater))
                      => Holds(cache', KeyTtlFirst, New)
                /\ Get(KeyTtlFirst) => (ret'.value = New /\ Holds(cache', KeyTtlFirst, New))
       /\ (Holds(cache, KeyTtlLater, New) /\ Get(KeyTtlLater))
             => /\ now < CacheGet(cache, KeyTtlLater).expiresAt => ret'.value = New
                /\ now > CacheGet(cache, KeyTtlLater).expiresAt => ret'.value = NoValue]_vars

\* C39 witness: get(a) has returned v2 while the overwritten entry of b,
\* inserted after a, is past its expiration: the overwrite of b was made
\* at least one tick ago and a was first set before that, so the
\* expiration of the overwritten entry of a, one tick after its first set,
\* has passed as well.
OverwriteReplacesExpirationWitness ==
    /\ ret.op = "get" /\ ret.key = KeyTtlFirst /\ ret.value = New
    /\ Len(cache) = 2
    /\ cache[1] = [key |-> KeyTtlFirst, value |-> New, expiresAt |-> Undefined]
    /\ cache[2].key = KeyTtlLater /\ cache[2].value = New
    /\ now > cache[2].expiresAt

(***************************************************************************)
(* SpecOverlap: callers that do not await their sets, on a store of at     *)
(* most one or two entries. A set that has to evict is suspended at        *)
(* `await this.delete(firstKey)`; while it is suspended other callers get  *)
(* and set, and a further set that has to evict waits until the suspended  *)
(* one has completed.                                                      *)
(***************************************************************************)
KeysOverlap == {<<"a">>, <<"b">>, <<"c">>}
ValuesOverlap == {StoreValue(d, tags) : d \in Data, tags \in SUBSET {"x"}}

Evicts(c, m) == NeedsEviction(c, m) /\ Len(c) > 0 /\ KeyTruthy(FirstKey(c))

InitOverlap ==
    /\ InitStore
    /\ maxSize \in {1, 2}
    /\ cfg = PlainConfig(1, 1)

NextOverlap ==
    \/ \E k \in KeysOverlap : Get(k)
    \/ /\ Idle \/ ~Evicts(cache, maxSize)
       /\ \E k \in KeysOverlap, v \in ValuesOverlap : Set(k, v, Undefined)
    \/ ResumeSet

SpecOverlap == InitOverlap /\ [][NextOverlap]_vars

\* C34: once every set has completed, a store with maxSize M holds at most
\* M entries, also when sets of distinct new keys were issued without
\* awaiting one another.
SizeBoundOverlap == Idle => Len(cache) <= maxSize

\* C35: when a set of k is suspended at its eviction step and a later set of
\* k has completed in the meantime, then after the suspended set has
\* completed as well get(k) returns the value of the later set, and k is in
\* the index set of exactly the tags of the stored value.
SameKeyWriteOrder ==
    [][(/\ mtq # <<>>
        /\ ret.op = "set"
        /\ ret.key = Head(mtq).key
        /\ ResumeSet)
          => /\ Visible(cache', ret.key, now) = ret.value
             /\ \A t \in {"x"} :
                   (t \in DOMAIN tagIndex' /\ ret.key \in tagIndex'[t])
                       <=> t \in CacheGet(cache', ret.key).value.tags]_vars

====
